---------------------------- MODULE Spec2Model ----------------------------
(***************************************************************************)
(* RAFOO++ : a class-based toy language runtime (parser.py linker,         *)
(* lang_types.py type model, interpreter.py execution / dispatch / gc).    *)
(*                                                                         *)
(* The model runs one statement sequence through two interpreters over    *)
(* the same linked type table: `main` under the configuration `cfg` and    *)
(* `twin` under `cfg` with one option flipped (enable_vtable, or the       *)
(* option named by `toggled`), so that statements about the dispatch       *)
(* strategy and about the plan cache can compare the two runs.             *)
(***************************************************************************)
EXTENDS Integers, Sequences, FiniteSets, TLC

VARIABLES
    classes,    \* the type table (name -> ClassDef), linked once link = "ok"
    link,       \* "pending", "ok" or the error _resolve_and_link raised
    cfg,        \* Config of the interpreter `main`
    main,       \* the interpreter
    twin,       \* the same program run with the option `toggled` flipped
    toggled,    \* the Config option in which twin differs from main
    last,       \* the statement executed last and the plan it resolved
    resolved,   \* cache key -> the plan of its first successful resolution
    linker,     \* the locals of _resolve_and_link when it is run step by step
    steps       \* number of statements executed

vars == <<classes, link, cfg, main, twin, toggled, last, resolved, linker,
          steps>>

(***************************************************************************)
(* Bounds of the exploration.                                              *)
(***************************************************************************)
MaxStmts == 3
MaxObjs == 2

(***************************************************************************)
(* Small helpers.                                                          *)
(***************************************************************************)
None == "None"

EmptyMap == [k \in {} |-> 0]

Range(s) == {s[i] : i \in 1..Len(s)}

\* python: d[k] = v on a dict
Put(f, k, v) == [x \in DOMAIN f \cup {k} |-> IF x = k THEN v ELSE f[x]]

\* python: del d[k]
Del(f, k) == [x \in DOMAIN f \ {k} |-> f[x]]

RECURSIVE SelectIds_inverted(_, _)
\* mutant of SelectIds: the filter keeps what it should drop
SelectIds_inverted(s, keep) ==
    IF s = <<>> THEN <<>>
    ELSE IF Head(s) \notin keep
         THEN <<Head(s)>> \o SelectIds_inverted(Tail(s), keep)
         ELSE SelectIds_inverted(Tail(s), keep)

RECURSIVE SelectIds(_, _)
\* python: [x for x in heap if id(x) in roots]
SelectIds(s, keep) ==
    IF s = <<>> THEN <<>>
    ELSE IF Head(s) \in keep THEN <<Head(s)>> \o SelectIds(Tail(s), keep)
         ELSE SelectIds(Tail(s), keep)

(***************************************************************************)
(* Tokens are strings; is_int / int() are modelled on the literal tokens   *)
(* that occur in the type tables.                                          *)
(***************************************************************************)
IntOf == ("1" :> 1) @@ ("2" :> 2) @@ ("7" :> 7) @@ ("-3" :> -3)

is_int(tok) == tok \in DOMAIN IntOf

(***************************************************************************)
(* Type tables as the parser hands them to the linker (ClassDef records    *)
(* before _resolve_and_link).  methods is an insertion-ordered dict,       *)
(* modelled as a sequence of [name, toks] with distinct names.             *)
(***************************************************************************)
Interface(ms) ==
    [is_interface |-> TRUE, base_name |-> None, interfaces_names |-> <<>>,
     fields |-> <<>>, methods |-> ms]

Class(b, is, fs, ms) ==
    [is_interface |-> FALSE, base_name |-> b, interfaces_names |-> is,
     fields |-> fs, methods |-> ms]

Meth(n, t) == [name |-> n, toks |-> t]

\* I (m required, d with a default body) is listed by A, which declares m
\* but not d, and is completed by B; K is listed by B only: its method n is
\* inherited from A and its method q is declared by no class; B overrides m.
Table1 ==
    [I |-> Interface(<<Meth("m", <<>>), Meth("d", <<"7">>)>>),
     K |-> Interface(<<Meth("n", <<>>), Meth("q", <<>>)>>),
     A |-> Class(None, <<"I">>, <<"a">>,
                 <<Meth("n", <<"2", "a">>), Meth("m", <<"a", "1">>)>>),
     B |-> Class("A", <<"K">>, <<"b">>,
                 <<Meth("m", <<"b">>), Meth("d", <<"a", "-3">>)>>)]

\* the order in which the type blocks are written (the insertion order of
\* Parser.types)
TypeOrder == <<"I", "K", "A", "B", "C", "I0", "C0", "C1", "C2", "C3", "C4">>

\* the names of the type blocks of table T, in the order they are written
Blocks(T) == SelectSeq(TypeOrder, LAMBDA n : n \in DOMAIN T)

BaseArgs == {"A", "B", "I", "Z"}
InterfacesArgs == {<<"K">>, <<"A">>, <<"Z">>}
FieldsArgs == {<<"b">>, <<"a">>}

\* Table1 and the programs that differ from it in the header of class B
Tables ==
    {[Table1 EXCEPT !.B = Class(b, is, fs, Table1.B.methods)] :
        b \in BaseArgs, is \in InterfacesArgs, fs \in FieldsArgs}

\* Table1 with a third class C, which overrides n of A, declares r and adds
\* two fields
Table3 ==
    [t \in DOMAIN Table1 \cup {"C"} |->
        IF t = "C"
        THEN Class("B", <<>>, <<"c", "e">>,
                   <<Meth("r", <<"e", "1">>), Meth("n", <<"c">>)>>)
        ELSE Table1[t]]

\* gen_chain_base(n = 5, use_interface = True): only C0 declares m, every
\* class adds one field
ChainTable ==
    [I0 |-> Interface(<<Meth("m", <<>>)>>),
     C0 |-> Class(None, <<"I0">>, <<"f0">>, <<Meth("m", <<"f0">>)>>),
     C1 |-> Class("C0", <<>>, <<"f1">>, <<>>),
     C2 |-> Class("C1", <<>>, <<"f2">>, <<>>),
     C3 |-> Class("C2", <<>>, <<"f3">>, <<>>),
     C4 |-> Class("C3", <<>>, <<"f4">>, <<>>)]

ClassBaseArgs == {None, "A", "B", "C"}
\* the fields line of class C: two names, or one name written twice
ClassFieldsArgs == {<<"c", "e">>, <<"c", "c">>}

\* every way of choosing the bases of A, B and C among None, A, B and C, and
\* the fields line of C among ClassFieldsArgs
LinkTables ==
    {[Table3 EXCEPT
        !.A = Class(ba, Table3.A.interfaces_names, Table3.A.fields,
                    Table3.A.methods),
        !.B = Class(bb, Table3.B.interfaces_names, Table3.B.fields,
                    Table3.B.methods),
        !.C = Class(bc, Table3.C.interfaces_names, fc,
                    Table3.C.methods)] :
        ba \in ClassBaseArgs, bb \in ClassBaseArgs, bc \in ClassBaseArgs,
        fc \in ClassFieldsArgs}

(***************************************************************************)
(* ClassDef helpers (lang_types.py) over a table T of linked or raw types. *)
(***************************************************************************)
MethodNames(t) == {t.methods[i].name : i \in 1..Len(t.methods)}

\* python: c.methods[name]
MethodToks(t, name) ==
    LET i == CHOOSE j \in 1..Len(t.methods) : t.methods[j].name = name
    IN  t.methods[i].toks

RECURSIVE BaseChain(_, _)
\* the classes visited by "c = self; while c is not None: ...; c = c.base"
BaseChain(T, c) ==
    IF c = None THEN <<>> ELSE <<c>> \o BaseChain(T, T[c].base_name)

is_subclass_of(T, self, other) ==
    IF T[self].is_interface \/ T[other].is_interface THEN FALSE
    ELSE other \in Range(BaseChain(T, self))

all_interfaces(T, self) ==
    IF T[self].is_interface THEN {self}
    ELSE UNION {Range(T[c].interfaces_names) : c \in Range(BaseChain(T, self))}

implements_interface(T, self, iface) ==
    IF ~T[iface].is_interface THEN FALSE
    ELSE iface \in all_interfaces(T, self)

\* mutant of lookup_method: every name is taken to be visible
lookup_method_any(T, self, name) == [found |-> TRUE, toks |-> <<>>]

RECURSIVE lookup_method(_, _, _)
\* [found, toks]; found = FALSE stands for the None result
lookup_method(T, self, name) ==
    IF T[self].is_interface
    THEN IF name \in MethodNames(T[self])
         THEN [found |-> TRUE, toks |-> MethodToks(T[self], name)]
         ELSE [found |-> FALSE, toks |-> <<>>]
    ELSE IF name \in MethodNames(T[self])
         THEN [found |-> TRUE, toks |-> MethodToks(T[self], name)]
         ELSE IF T[self].base_name = None
              THEN [found |-> FALSE, toks |-> <<>>]
              ELSE lookup_method(T, T[self].base_name, name)

(***************************************************************************)
(* Linker (parser.py _resolve_and_link, steps 4, 6 and 7) and              *)
(* ClassDef.compute_layout.  Positions and slots are 0-based as in the     *)
(* source.                                                                 *)
(***************************************************************************)
RECURSIVE compute_layout_own_first(_, _)
\* mutant of compute_layout: the declared fields come before the base layout
compute_layout_own_first(T, c) ==
    IF T[c].is_interface THEN <<>>
    ELSE IF T[c].base_name = None THEN T[c].fields
         ELSE T[c].fields \o compute_layout_own_first(T, T[c].base_name)

RECURSIVE compute_layout(_, _)
compute_layout(T, c) ==
    IF T[c].is_interface THEN <<>>
    ELSE IF T[c].base_name = None THEN T[c].fields
         ELSE compute_layout(T, T[c].base_name) \o T[c].fields

\* mutant of field_index_of: positions are counted from the end of the layout
field_index_of_from_end(allf) ==
    [n \in Range(allf) |->
        Len(allf) - (CHOOSE i \in 1..Len(allf) : allf[i] = n)]

\* python: {n: i for i, n in enumerate(allf)}  (the last position wins)
field_index_of(allf) ==
    [n \in Range(allf) |->
        (CHOOSE i \in 1..Len(allf) :
            allf[i] = n /\ \A j \in 1..Len(allf) : allf[j] = n => j <= i) - 1]

\* python: {m: i for i, m in enumerate(t.methods.keys())}
iface_method_slot(t) ==
    [n \in MethodNames(t) |->
        (CHOOSE i \in 1..Len(t.methods) : t.methods[i].name = n) - 1]

RECURSIVE add_methods_append(_, _)
\* mutant of add_methods: an override gets a new slot instead of replacing
\* the inherited one
add_methods_append(acc, ms) ==
    IF ms = <<>> THEN acc
    ELSE add_methods_append(
            [slot |-> Put(acc.slot, Head(ms).name, Len(acc.vt)),
             vt |-> Append(acc.vt, Head(ms).toks)],
            Tail(ms))

RECURSIVE add_methods_keep_base(_, _)
\* mutant of add_methods: an override keeps the tokens of the base in its slot
add_methods_keep_base(acc, ms) ==
    IF ms = <<>> THEN acc
    ELSE IF Head(ms).name \in DOMAIN acc.slot
         THEN add_methods_keep_base(acc, Tail(ms))
         ELSE add_methods_keep_base(
                [slot |-> Put(acc.slot, Head(ms).name, Len(acc.vt)),
                 vt |-> Append(acc.vt, Head(ms).toks)],
                Tail(ms))

RECURSIVE add_methods(_, _)
\* the loop "for mname, toks in t.methods.items()" over [slot, vt]
add_methods(acc, ms) ==
    IF ms = <<>> THEN acc
    ELSE LET mname == Head(ms).name
             toks == Head(ms).toks
         IN  IF mname \in DOMAIN acc.slot
             THEN add_methods(
                    [slot |-> acc.slot,
                     vt |-> [acc.vt EXCEPT ![acc.slot[mname] + 1] = toks]],
                    Tail(ms))
             ELSE add_methods(
                    [slot |-> Put(acc.slot, mname, Len(acc.vt)),
                     vt |-> Append(acc.vt, toks)],
                    Tail(ms))

\* mutant of build_vtable: the table of a class starts empty, not as a copy
\* of the table of its base
build_vtable_fresh(T, c) ==
    add_methods([slot |-> EmptyMap, vt |-> <<>>], T[c].methods)

RECURSIVE build_vtable(_, _)
build_vtable(T, c) ==
    IF T[c].base_name = None
    THEN add_methods([slot |-> EmptyMap, vt |-> <<>>], T[c].methods)
    ELSE add_methods(build_vtable(T, T[c].base_name), T[c].methods)

\* the first error of a loop over the types, "none" when no iteration raised
FirstError(errs) ==
    IF \A i \in 1..Len(errs) : errs[i] = "none" THEN "none"
    ELSE errs[CHOOSE i \in 1..Len(errs) :
                 errs[i] # "none" /\ \A j \in 1..(i - 1) : errs[j] = "none"]

\* step 1 for one type
base_error(T, c) ==
    IF T[c].is_interface \/ T[c].base_name = None THEN "none"
    ELSE IF T[c].base_name \notin DOMAIN T THEN "Unknown base class"
    ELSE IF T[T[c].base_name].is_interface
    THEN "Base of class cannot be an interface"
    ELSE "none"

\* step 2 for one interface name of a class
interface_name_error(T, iname) ==
    IF iname \notin DOMAIN T THEN "Unknown interface"
    ELSE IF ~T[iname].is_interface THEN "is not an interface"
    ELSE "none"

\* step 2 for one type
interfaces_error(T, c) ==
    IF T[c].is_interface THEN "none"
    ELSE FirstError([i \in 1..Len(T[c].interfaces_names) |->
                        interface_name_error(T, T[c].interfaces_names[i])])

\* mutant of has_cycle_from: the walk reports a cycle as soon as it can move
has_cycle_from_eager(T, slow, fast) ==
    IF fast = None THEN FALSE
    ELSE T[fast].base_name # None

RECURSIVE has_cycle_from(_, _, _)
\* the loop of has_cycle: slow and fast are class names, None ends the chain
has_cycle_from(T, slow, fast) ==
    IF fast = None THEN FALSE
    ELSE IF T[fast].base_name = None THEN FALSE
    ELSE IF T[slow].base_name = T[T[fast].base_name].base_name THEN TRUE
    ELSE has_cycle_from(T, T[slow].base_name, T[T[fast].base_name].base_name)

\* step 3 for one type
cycle_error(T, c) ==
    IF ~T[c].is_interface /\ has_cycle_from(T, c, c)
    THEN "Cyclic class inheritance detected"
    ELSE "none"

\* mutant of field_error: a field of the base may be declared again
field_error_none(T, c) == "none"

\* step 5 for one type
field_error(T, c) ==
    IF T[c].is_interface \/ T[c].base_name = None THEN "none"
    ELSE IF \E i \in 1..Len(T[c].fields) :
               T[c].fields[i] \in Range(compute_layout(T, T[c].base_name))
    THEN "Field already defined in base class"
    ELSE "none"

\* e, or what follows when e did not raise
OrElse(e, rest) == IF e # "none" THEN e ELSE rest

\* the error _resolve_and_link raises on the type table T, "none" when it
\* returns
link_error(T) ==
    OrElse(FirstError([i \in 1..Len(Blocks(T)) |-> base_error(T, Blocks(T)[i])]),
    OrElse(FirstError([i \in 1..Len(Blocks(T)) |->
                          interfaces_error(T, Blocks(T)[i])]),
    OrElse(FirstError([i \in 1..Len(Blocks(T)) |-> cycle_error(T, Blocks(T)[i])]),
           FirstError([i \in 1..Len(Blocks(T)) |->
                          field_error(T, Blocks(T)[i])]))))

\* the ClassDef records after a successful _resolve_and_link
resolve_and_link(T) ==
    [c \in DOMAIN T |->
        LET allf == compute_layout(T, c)
            vt == IF T[c].is_interface
                  THEN [slot |-> iface_method_slot(T[c]), vt |-> <<>>]
                  ELSE build_vtable(T, c)
        IN  [is_interface |-> T[c].is_interface,
             base_name |-> T[c].base_name,
             interfaces_names |-> T[c].interfaces_names,
             fields |-> T[c].fields,
             methods |-> T[c].methods,
             all_fields |-> allf,
             field_index |-> field_index_of(allf),
             method_slot |-> vt.slot,
             vtable_tokens |-> vt.vt]]

(***************************************************************************)
(* Interpreter state (interpreter.py Interpreter.__init__, Metrics).       *)
(* Objects are identified by an id (python id()); objs maps the ids of the *)
(* live Instance objects to their cls and values.  The lazy caches         *)
(* ClassDef._vtable_plans / _itable_plans are kept with the interpreter    *)
(* that fills them; an absent key stands for a None slot.                  *)
(* resolve_time_ns is wall-clock time and is left out.                     *)
(***************************************************************************)
Metrics0 ==
    [resolve_calls |-> 0, resolve_steps |-> 0, cache_hits |-> 0,
     cache_misses |-> 0, vtable_uses |-> 0, itable_uses |-> 0,
     class_jumps |-> 0, class_probes |-> 0, resolve_fails |-> 0,
     gc_runs |-> 0, gc_collected |-> 0]

Interpreter0(T) ==
    [env |-> EmptyMap, heap |-> <<>>, objs |-> EmptyMap, next_id |-> 1,
     plan_cache |-> EmptyMap,
     vtable_plans |-> [c \in DOMAIN T |-> EmptyMap],
     itable_plans |-> [c \in DOMAIN T |-> EmptyMap],
     metrics |-> Metrics0, out |-> <<>>, failed |-> "none"]

Configs ==
    [enable_metrics : BOOLEAN, enable_gc : BOOLEAN,
     enable_vtable : BOOLEAN, enable_cache : BOOLEAN]

\* raise ValueError(msg): the run stops, what was changed so far stays
Raise(I, msg) == [I EXCEPT !.failed = msg]

Bump(I, c, counter, n) ==
    IF c.enable_metrics
    THEN [I EXCEPT !.metrics[counter] = @ + n]
    ELSE I

(***************************************************************************)
(* Resolution and cache engine.                                            *)
(***************************************************************************)
RECURSIVE lookup_with_steps(_, _, _)
\* [found, toks, steps] and the increments of the three walk counters
lookup_with_steps(T, start, name) ==
    IF start = None
    THEN [found |-> FALSE, toks |-> <<>>, steps |-> 0,
          jumps |-> 0, probes |-> 0, fails |-> 0]
    ELSE LET ms == T[start].methods
         IN  IF name \in MethodNames(T[start])
             THEN LET i == CHOOSE j \in 1..Len(ms) : ms[j].name = name
                  IN  [found |-> TRUE, toks |-> ms[i].toks, steps |-> 0,
                       jumps |-> 1, probes |-> i, fails |-> i - 1]
             ELSE LET r == lookup_with_steps(T, T[start].base_name, name)
                  IN  [r EXCEPT !.steps = @ + 1, !.jumps = @ + 1,
                                !.probes = @ + Len(ms), !.fails = @ + Len(ms)]

\* the walk counters are updated whether or not metrics are enabled
CountWalk(I, r) ==
    [I EXCEPT !.metrics.class_jumps = @ + r.jumps,
              !.metrics.class_probes = @ + r.probes,
              !.metrics.resolve_fails = @ + r.fails]

\* one token of the loop in _compile_plan, in front of the entries compiled
\* from the tokens after it
compile_tok(T, runtime, tok, rest) ==
    IF is_int(tok)
    THEN [ok |-> rest.ok,
          plan |-> IF rest.ok THEN <<<<FALSE, IntOf[tok]>>>> \o rest.plan
                   ELSE <<>>]
    ELSE IF tok \in DOMAIN T[runtime].field_index
         THEN [ok |-> rest.ok,
               plan |-> IF rest.ok
                        THEN <<<<TRUE, T[runtime].field_index[tok]>>>>
                             \o rest.plan
                        ELSE <<>>]
         ELSE [ok |-> FALSE, plan |-> <<>>]

RECURSIVE compile_plan(_, _, _)
\* [ok, plan]; ok = FALSE is "Unknown field ... in method"
compile_plan(T, runtime, toks) ==
    IF toks = <<>> THEN [ok |-> TRUE, plan |-> <<>>]
    ELSE compile_tok(T, runtime, Head(toks),
                     compile_plan(T, runtime, Tail(toks)))

\* result of a resolution: the plan and the interpreter after it
Res(I, p) == [st |-> I, plan |-> p]

\* runtime._vtable_plans[slot] = plan, after the compilation cp
vtable_store(I, c, runtime, slot, cp) ==
    IF ~cp.ok THEN Res(Raise(I, "Unknown field in method"), <<>>)
    ELSE Res(Bump([I EXCEPT !.vtable_plans[runtime] = Put(@, slot, cp.plan)],
                  c, "resolve_calls", 1),
             cp.plan)

vtable_plan(T, I, c, runtime, slot) ==
    IF slot \in DOMAIN I.vtable_plans[runtime]
    THEN Res(Bump(I, c, "cache_hits", 1), I.vtable_plans[runtime][slot])
    ELSE vtable_store(Bump(I, c, "cache_misses", 1), c, runtime, slot,
                      compile_plan(T, runtime,
                                   T[runtime].vtable_tokens[slot + 1]))

\* one iteration of the loop in _itable_plan: r is the lookup of the method
\* from the runtime type, cp the compilation of what it found, rest the
\* iterations after this one
itable_entry(I, r, cp, rest) ==
    IF ~r.found
    THEN [st |-> Raise(CountWalk(I, r), "Class does not implement"),
          plans |-> <<>>]
    ELSE IF ~cp.ok
         THEN [st |-> Raise(CountWalk(I, r), "Unknown field in method"),
               plans |-> <<>>]
         ELSE [st |-> rest.st, plans |-> <<cp.plan>> \o rest.plans]

RECURSIVE build_itable(_, _, _, _, _)
\* the loop "for m, slot in iface.method_slot.items()": [st, plans]
build_itable(T, I, c, runtime, ms) ==
    IF ms = <<>> THEN [st |-> I, plans |-> <<>>]
    ELSE itable_entry(
            I,
            lookup_with_steps(T, runtime, Head(ms).name),
            compile_plan(T, runtime,
                         lookup_with_steps(T, runtime, Head(ms).name).toks),
            build_itable(
                T,
                Bump(CountWalk(I, lookup_with_steps(T, runtime, Head(ms).name)),
                     c, "resolve_steps",
                     lookup_with_steps(T, runtime, Head(ms).name).steps),
                c, runtime, Tail(ms)))

\* mutant of itable_store: what the loop built is stored also when it raised
itable_store_partial(T, c, runtime, iface, method_name, b) ==
    IF b.st.failed # "none"
    THEN Res([b.st EXCEPT !.itable_plans[runtime] = Put(@, iface, b.plans)],
             <<>>)
    ELSE Res(Bump([b.st EXCEPT !.itable_plans[runtime] = Put(@, iface, b.plans)],
                  c, "resolve_calls", 1),
             b.plans[T[iface].method_slot[method_name] + 1])

\* runtime._itable_plans[iface.name] = plans, when the loop b completed
itable_store(T, c, runtime, iface, method_name, b) ==
    IF b.st.failed # "none" THEN Res(b.st, <<>>)
    ELSE Res(Bump([b.st EXCEPT !.itable_plans[runtime] = Put(@, iface, b.plans)],
                  c, "resolve_calls", 1),
             b.plans[T[iface].method_slot[method_name] + 1])

\* mutant of itable_plan: the itable is built on every call
itable_plan_rebuild(T, I, c, runtime, iface, method_name) ==
    itable_store(T, c, runtime, iface, method_name,
                 build_itable(T, Bump(I, c, "cache_misses", 1), c, runtime,
                              T[iface].methods))

itable_plan(T, I, c, runtime, iface, method_name) ==
    IF iface \in DOMAIN I.itable_plans[runtime]
    THEN Res(Bump(I, c, "cache_hits", 1),
             I.itable_plans[runtime][iface][T[iface].method_slot[method_name] + 1])
    ELSE itable_store(T, c, runtime, iface, method_name,
                      build_itable(T, Bump(I, c, "cache_misses", 1), c, runtime,
                                   T[iface].methods))

\* "tokens, steps = ..." and the interpreter after the walk r
Walked(I, r) ==
    [st |-> CountWalk(I, r), found |-> r.found, toks |-> r.toks,
     steps |-> r.steps]

\* a linear lookup of the cached-fallback branch: [st, found, toks, steps]
Walk(T, I, start, name) == Walked(I, lookup_with_steps(T, start, name))

NoImpl(I) ==
    [st |-> Raise(I, "does not implement interface"), found |-> FALSE,
     toks |-> <<>>, steps |-> 0]

\* mutant of or_runtime_body: the tokens of the interface are used even when
\* there are none
or_runtime_body_never(T, runtime, method_name, w) == w

\* "if tokens is None or len(tokens) == 0": w is the walk from the interface
or_runtime_body(T, runtime, method_name, w) ==
    IF ~w.found \/ Len(w.toks) = 0
    THEN Walk(T, w.st, runtime, method_name)
    ELSE w

\* static call, the view is an interface
static_iface_lookup(T, I, view, runtime, method_name) ==
    IF ~implements_interface(T, runtime, view) THEN NoImpl(I)
    ELSE or_runtime_body(T, runtime, method_name, Walk(T, I, view, method_name))

\* mutant of static_class_lookup: the walk starts at the runtime type
static_class_lookup_from_runtime(T, I, view, runtime, method_name) ==
    Walk(T, I, runtime, method_name)

\* static call, the view is a class
static_class_lookup(T, I, view, runtime, method_name) ==
    Walk(T, I, view, method_name)

\* mutant of dynamic_lookup: the walk starts at the view type
dynamic_lookup_from_view(T, I, view, runtime, method_name) ==
    IF T[view].is_interface /\ ~implements_interface(T, runtime, view)
    THEN NoImpl(I)
    ELSE Walk(T, I, view, method_name)

\* dynamic call without the vtable
dynamic_lookup(T, I, view, runtime, method_name) ==
    IF T[view].is_interface /\ ~implements_interface(T, runtime, view)
    THEN NoImpl(I)
    ELSE Walk(T, I, runtime, method_name)

fallback_lookup(T, I, view, runtime, method_name, dynamic) ==
    IF ~dynamic
    THEN IF T[view].is_interface
         THEN static_iface_lookup(T, I, view, runtime, method_name)
         ELSE static_class_lookup(T, I, view, runtime, method_name)
    ELSE dynamic_lookup(T, I, view, runtime, method_name)

\* mutant of store_plan: the compiled plan is never stored
store_plan_skip(I, c, cache_key, plan) == I

\* self._plan_cache[cache_key] = plan, when caching is enabled
store_plan(I, c, cache_key, plan) ==
    IF c.enable_cache THEN [I EXCEPT !.plan_cache = Put(@, cache_key, plan)]
    ELSE I

\* mutant of CacheKey: the view type is not part of the key
CacheKey_without_view(view, runtime, method_name, dynamic) ==
    <<IF dynamic THEN "dyn" ELSE "static", runtime, runtime, method_name>>

CacheKey(view, runtime, method_name, dynamic) ==
    <<IF dynamic THEN "dyn" ELSE "static", view, runtime, method_name>>

\* mutant of fast_path_used: the fast path is not counted
fast_path_used_uncounted(c, counter, r) == r

\* "self.metrics.itable_uses += 1" / "vtable_uses += 1" after the fast path r
\* returned a plan
fast_path_used(c, counter, r) ==
    IF r.st.failed # "none" THEN r
    ELSE Res(Bump(r.st, c, counter, 1), r.plan)

\* the end of the cached-fallback branch: lk is the linear lookup, cp the
\* compilation of the tokens it found
resolved_plan(c, cache_key, lk, cp) ==
    IF lk.st.failed # "none" THEN Res(lk.st, <<>>)
    ELSE IF ~lk.found
    THEN Res(Raise(lk.st, "Method not found (resolved)"), <<>>)
    ELSE IF ~cp.ok
    THEN Res(Raise(lk.st, "Unknown field in method"), <<>>)
    ELSE Res(store_plan(Bump(Bump(lk.st, c, "resolve_calls", 1),
                             c, "resolve_steps", lk.steps),
                        c, cache_key, cp.plan),
             cp.plan)

\* the cached-fallback branch after a cache miss
compile_found(T, c, runtime, cache_key, lk) ==
    resolved_plan(c, cache_key, lk, compile_plan(T, runtime, lk.toks))

resolve_call_plan(T, I, c, binding, method_name, dynamic) ==
    LET view == binding.view_cls
        runtime == I.objs[binding.inst].cls
        cache_key == CacheKey(view, runtime, method_name, dynamic)
    IN  IF ~lookup_method(T, view, method_name).found
        THEN Res(Raise(I, "Method not found in view type"), <<>>)
        ELSE IF dynamic /\ c.enable_vtable
        THEN IF T[view].is_interface
             THEN IF ~implements_interface(T, runtime, view)
                  THEN Res(Raise(I, "does not implement interface"), <<>>)
                  ELSE fast_path_used(
                          c, "itable_uses",
                          itable_plan(T, I, c, runtime, view, method_name))
             ELSE IF ~is_subclass_of(T, runtime, view) /\ runtime # view
                  THEN Res(Raise(I, "is not a subclass of view type"), <<>>)
                  ELSE IF method_name \notin DOMAIN T[view].method_slot
                       THEN Res(Raise(I, "Internal: no slot"), <<>>)
                       ELSE fast_path_used(
                               c, "vtable_uses",
                               vtable_plan(T, I, c, runtime,
                                           T[view].method_slot[method_name]))
        ELSE IF c.enable_cache /\ cache_key \in DOMAIN I.plan_cache
        THEN Res(Bump(I, c, "cache_hits", 1), I.plan_cache[cache_key])
        ELSE compile_found(
                T, c, runtime, cache_key,
                fallback_lookup(
                    T,
                    IF c.enable_cache THEN Bump(I, c, "cache_misses", 1) ELSE I,
                    view, runtime, method_name, dynamic))

(***************************************************************************)
(* Execution engine: one operator per statement handler.  Each takes the   *)
(* interpreter I and its configuration c and yields the interpreter after  *)
(* the statement.                                                          *)
(***************************************************************************)
VarBinding(i, v) == [inst |-> i, view_cls |-> v]

Line(k, vs) == [kind |-> k, vals |-> vs]

\* Instance(cls, values) appended to the heap under a fresh identity
Allocate(I, cls, values) ==
    [I EXCEPT !.objs = Put(@, I.next_id, [cls |-> cls, values |-> values]),
              !.heap = Append(@, I.next_id),
              !.next_id = @ + 1]

\* mutant of exec_let_new: the object is put on the heap before the argument
\* count is checked
exec_let_new_late_check(T, I, var, cls_name, args) ==
    IF cls_name \notin DOMAIN T THEN Raise(I, "Unknown class")
    ELSE IF T[cls_name].is_interface
    THEN Raise(I, "Cannot instantiate an interface")
    ELSE IF Len(T[cls_name].all_fields) # Len(args)
    THEN Raise(Allocate(I, cls_name, args), "Class expects args")
    ELSE [Allocate(I, cls_name, args)
             EXCEPT !.env = Put(@, var, VarBinding(I.next_id, cls_name))]

\* mutant of exec_let_new: the argument count is not checked
exec_let_new_any_arity(T, I, var, cls_name, args) ==
    IF cls_name \notin DOMAIN T THEN Raise(I, "Unknown class")
    ELSE IF T[cls_name].is_interface
    THEN Raise(I, "Cannot instantiate an interface")
    ELSE LET I1 == Allocate(I, cls_name, args)
         IN  [I1 EXCEPT !.env = Put(@, var, VarBinding(I.next_id, cls_name))]

\* let <var> = new <cls_name>(<args>)
exec_let_new(T, I, var, cls_name, args) ==
    IF cls_name \notin DOMAIN T THEN Raise(I, "Unknown class")
    ELSE IF T[cls_name].is_interface
    THEN Raise(I, "Cannot instantiate an interface")
    ELSE IF Len(T[cls_name].all_fields) # Len(args)
    THEN Raise(I, "Class expects args")
    ELSE LET I1 == Allocate(I, cls_name, args)
         IN  [I1 EXCEPT !.env = Put(@, var, VarBinding(I.next_id, cls_name))]

\* mutant of exec_let_clone: the name is bound to the source object itself
exec_let_clone_shared(T, I, var, src) ==
    IF src \notin DOMAIN I.env THEN Raise(I, "Unknown variable")
    ELSE [I EXCEPT !.env = Put(@, var, VarBinding(I.env[src].inst,
                                                   I.env[src].view_cls))]

\* mutant of exec_let_clone: the copy is not appended to the heap
exec_let_clone_off_heap(T, I, var, src) ==
    IF src \notin DOMAIN I.env THEN Raise(I, "Unknown variable")
    ELSE [I EXCEPT !.objs = Put(@, I.next_id,
                                [cls |-> I.objs[I.env[src].inst].cls,
                                 values |-> I.objs[I.env[src].inst].values]),
                   !.next_id = @ + 1,
                   !.env = Put(@, var, VarBinding(I.next_id,
                                                  I.env[src].view_cls))]

\* let <var> = clone <src>
exec_let_clone(T, I, var, src) ==
    IF src \notin DOMAIN I.env THEN Raise(I, "Unknown variable")
    ELSE LET b == I.env[src]
             I1 == Allocate(I, I.objs[b.inst].cls, I.objs[b.inst].values)
         IN  [I1 EXCEPT !.env = Put(@, var, VarBinding(I.next_id, b.view_cls))]

\* mutant of cast_binding: a class target is not checked against the
\* runtime type
cast_binding_unchecked(T, I, binding, target_name) ==
    LET runtime == I.objs[binding.inst].cls
    IN  IF target_name \notin DOMAIN T
        THEN [ok |-> FALSE, err |-> "Unknown type", binding |-> binding]
        ELSE IF T[target_name].is_interface
                /\ ~implements_interface(T, runtime, target_name)
        THEN [ok |-> FALSE, err |-> "Cannot cast to interface",
              binding |-> binding]
        ELSE [ok |-> TRUE, err |-> "none",
              binding |-> VarBinding(binding.inst, target_name)]

\* mutant of cast_binding: a class target is checked against the view type
\* of the source binding
cast_binding_from_view(T, I, binding, target_name) ==
    IF target_name \notin DOMAIN T
    THEN [ok |-> FALSE, err |-> "Unknown type", binding |-> binding]
    ELSE IF T[target_name].is_interface
    THEN IF ~implements_interface(T, I.objs[binding.inst].cls, target_name)
         THEN [ok |-> FALSE, err |-> "Cannot cast to interface",
               binding |-> binding]
         ELSE [ok |-> TRUE, err |-> "none",
               binding |-> VarBinding(binding.inst, target_name)]
    ELSE IF T[binding.view_cls].is_interface
            \/ ~is_subclass_of(T, binding.view_cls, target_name)
         THEN [ok |-> FALSE, err |-> "Cannot cast", binding |-> binding]
         ELSE [ok |-> TRUE, err |-> "none",
               binding |-> VarBinding(binding.inst, target_name)]

\* mutant of cast_binding: a cast to an interface is not checked against the
\* runtime type
cast_binding_any_interface(T, I, binding, target_name) ==
    IF target_name \notin DOMAIN T
    THEN [ok |-> FALSE, err |-> "Unknown type", binding |-> binding]
    ELSE IF T[target_name].is_interface
    THEN [ok |-> TRUE, err |-> "none",
          binding |-> VarBinding(binding.inst, target_name)]
    ELSE IF ~is_subclass_of(T, I.objs[binding.inst].cls, target_name)
         THEN [ok |-> FALSE, err |-> "Cannot cast", binding |-> binding]
         ELSE [ok |-> TRUE, err |-> "none",
               binding |-> VarBinding(binding.inst, target_name)]

\* [ok, err, binding]
cast_binding(T, I, binding, target_name) ==
    LET runtime == I.objs[binding.inst].cls
    IN  IF target_name \notin DOMAIN T
        THEN [ok |-> FALSE, err |-> "Unknown type", binding |-> binding]
        ELSE IF T[target_name].is_interface
        THEN IF ~implements_interface(T, runtime, target_name)
             THEN [ok |-> FALSE, err |-> "Cannot cast to interface",
                   binding |-> binding]
             ELSE [ok |-> TRUE, err |-> "none",
                   binding |-> VarBinding(binding.inst, target_name)]
        ELSE IF ~is_subclass_of(T, runtime, target_name)
             THEN [ok |-> FALSE, err |-> "Cannot cast", binding |-> binding]
             ELSE [ok |-> TRUE, err |-> "none",
                   binding |-> VarBinding(binding.inst, target_name)]

\* let <var> = cast<<target_name>> <src>
\* self.env[var_name] = new_binding, when the cast r did not raise
bind_cast(I, var, r) ==
    IF ~r.ok THEN Raise(I, r.err)
    ELSE [I EXCEPT !.env = Put(@, var, r.binding)]

exec_let_cast(T, I, var, target_name, src) ==
    IF src \notin DOMAIN I.env THEN Raise(I, "Unknown variable")
    ELSE bind_cast(I, var, cast_binding(T, I, I.env[src], target_name))

\* let <var> = <src>
exec_let_alias(T, I, var, src) ==
    IF src \notin DOMAIN I.env THEN Raise(I, "Unknown variable")
    ELSE [I EXCEPT !.env = Put(@, var, VarBinding(I.env[src].inst,
                                                   I.env[src].view_cls))]

\* mutant of exec_field_assign: the field is resolved in the view type
exec_field_assign_by_view(T, I, var, field_name, value) ==
    IF var \notin DOMAIN I.env THEN Raise(I, "Unknown variable")
    ELSE IF field_name \notin DOMAIN T[I.env[var].view_cls].field_index
         THEN Raise(I, "Unknown field")
         ELSE [I EXCEPT !.objs[I.env[var].inst]
                            .values[T[I.env[var].view_cls].field_index[field_name]
                                    + 1] = value]

\* mutant of exec_field_assign: the plans of the global cache are dropped when
\* a field changes
exec_field_assign_invalidate(T, I, var, field_name, value) ==
    IF var \notin DOMAIN I.env THEN Raise(I, "Unknown variable")
    ELSE IF field_name
                \notin DOMAIN T[I.objs[I.env[var].inst].cls].field_index
         THEN Raise(I, "Unknown field")
         ELSE [I EXCEPT !.objs[I.env[var].inst].values[
                              T[I.objs[I.env[var].inst].cls]
                                  .field_index[field_name] + 1] = value,
                        !.plan_cache = EmptyMap]

\* <var>.<field_name> = <value>
exec_field_assign(T, I, var, field_name, value) ==
    IF var \notin DOMAIN I.env THEN Raise(I, "Unknown variable")
    ELSE LET inst == I.env[var].inst
             cls == I.objs[inst].cls
         IN  IF field_name \notin DOMAIN T[cls].field_index
             THEN Raise(I, "Unknown field")
             ELSE [I EXCEPT !.objs[inst].values[T[cls].field_index[field_name] + 1]
                               = value]

\* the loop over the plan in _exec_call
RunPlan(plan, values) ==
    [i \in 1..Len(plan) |->
        IF plan[i][1] THEN values[plan[i][2] + 1] ELSE plan[i][2]]

\* mutant of print_plan: the plan reads the values of the first object of the
\* invoked object's runtime type, as if it were tied to the object it was
\* compiled on
print_plan_first_object(binding, r) ==
    IF r.st.failed # "none" THEN r
    ELSE Res([r.st EXCEPT !.out =
                 Append(@, Line("vals",
                                RunPlan(r.plan,
                                        r.st.objs[
                                            CHOOSE i \in DOMAIN r.st.objs :
                                                /\ r.st.objs[i].cls =
                                                      r.st.objs[binding.inst].cls
                                                /\ \A j \in DOMAIN r.st.objs :
                                                      r.st.objs[j].cls =
                                                          r.st.objs[binding.inst].cls
                                                      => i <= j].values)))],
             r.plan)

\* call <var>.<method_name> (dynamic = FALSE), vcall ... (dynamic = TRUE)
\* the values of the resolved plan r are printed
print_plan(binding, r) ==
    IF r.st.failed # "none" THEN r
    ELSE Res([r.st EXCEPT !.out =
                 Append(@, Line("vals",
                                RunPlan(r.plan, r.st.objs[binding.inst].values)))],
             r.plan)

exec_call(T, I, c, var, method_name, dynamic) ==
    IF var \notin DOMAIN I.env THEN Res(Raise(I, "Unknown variable"), <<>>)
    ELSE print_plan(I.env[var],
                    resolve_call_plan(T, I, c, I.env[var], method_name, dynamic))

\* mutant of exec_is: the view type of the binding is tested
exec_is_by_view(T, I, var, type_name) ==
    IF var \notin DOMAIN I.env \/ type_name \notin DOMAIN T
    THEN [I EXCEPT !.out = Append(@, Line("ISN'T", <<>>))]
    ELSE IF T[type_name].is_interface
         THEN [I EXCEPT !.out =
                  Append(@, Line(IF implements_interface(T, I.env[var].view_cls,
                                                         type_name)
                                 THEN "IS" ELSE "ISN'T", <<>>))]
         ELSE [I EXCEPT !.out =
                  Append(@, Line(IF is_subclass_of(T, I.env[var].view_cls,
                                                   type_name)
                                 THEN "IS" ELSE "ISN'T", <<>>))]

\* <var> is <type_name>
exec_is(T, I, var, type_name) ==
    IF var \notin DOMAIN I.env \/ type_name \notin DOMAIN T
    THEN [I EXCEPT !.out = Append(@, Line("ISN'T", <<>>))]
    ELSE LET cls == I.objs[I.env[var].inst].cls
             yes == IF T[type_name].is_interface
                    THEN implements_interface(T, cls, type_name)
                    ELSE is_subclass_of(T, cls, type_name)
         IN  [I EXCEPT !.out = Append(@, Line(IF yes THEN "IS" ELSE "ISN'T",
                                              <<>>))]

\* mutant of exec_free: the object is taken off the heap with the name
exec_free_object(I, var) ==
    IF var \notin DOMAIN I.env THEN Raise(I, "Unknown variable")
    ELSE [I EXCEPT !.env = Del(@, var),
                   !.heap = SelectIds(@, Range(@) \ {I.env[var].inst})]

\* free <var>
exec_free(I, var) ==
    IF var \notin DOMAIN I.env THEN Raise(I, "Unknown variable")
    ELSE [I EXCEPT !.env = Del(@, var)]

Roots(I) == {I.env[n].inst : n \in DOMAIN I.env}

\* mutant of gc_collect: the sweep compares Instances by value (dataclass
\* equality) instead of by identity
gc_collect_by_value(I, c) ==
    LET rootvals == {I.objs[i] : i \in Roots(I)}
        heap2 == SelectIds(I.heap, {i \in Range(I.heap) : I.objs[i] \in rootvals})
        collected == Len(I.heap) - Len(heap2)
        I1 == [I EXCEPT !.heap = heap2,
                        !.objs = [i \in (Range(heap2) \cup Roots(I)) \cap DOMAIN @
                                    |-> @[i]]]
    IN  Bump(Bump(I1, c, "gc_runs", 1), c, "gc_collected", collected)

\* mutant of gc_collect: the survivors are counted instead of the removed
gc_collect_miscount(I, c) ==
    LET heap2 == SelectIds(I.heap, Roots(I))
        I1 == [I EXCEPT !.heap = heap2,
                        !.objs = [i \in (Range(heap2) \cup Roots(I)) \cap DOMAIN @
                                    |-> @[i]]]
    IN  Bump(Bump(I1, c, "gc_runs", 1), c, "gc_collected", Len(heap2))

gc_collect(I, c) ==
    LET roots == Roots(I)
        before == Len(I.heap)
        heap2 == SelectIds(I.heap, roots)
        collected == before - Len(heap2)
        I1 == [I EXCEPT !.heap = heap2,
                        \* Instances that nothing refers to any more are gone
                        !.objs = [i \in (Range(heap2) \cup roots) \cap DOMAIN @
                                    |-> @[i]]]
    IN  Bump(Bump(I1, c, "gc_runs", 1), c, "gc_collected", collected)

\* mutant of exec_gc: enable_gc is not consulted
exec_gc_always(I, c) == gc_collect(I, c)

\* gc
exec_gc(I, c) == IF c.enable_gc THEN gc_collect(I, c) ELSE I

(***************************************************************************)
(* The run loop (Interpreter.run): statements are executed one after the   *)
(* other until one raises.  The statement inputs are drawn from the sets   *)
(* below.                                                                  *)
(***************************************************************************)
\* the program under execution is the chain program
ChainProgram == "C0" \in DOMAIN classes

Names == {"x", "y"}
NewTypes == IF ChainProgram THEN {"C4", "C0"} ELSE {"A", "B", "I"}
CastTypes ==
    IF ChainProgram THEN {"C0", "C4", "I0"} ELSE {"A", "B", "I", "K", "Z"}
IsTypes == IF ChainProgram THEN {"C0", "I0"} ELSE {"A", "B", "K", "Z"}
ArgLists ==
    IF ChainProgram THEN {<<0>>, <<0, 1, 2, 3, 4>>} ELSE {<<10>>, <<10, 20>>}
MethodArgs == IF ChainProgram THEN {"m"} ELSE {"m", "n", "d", "q"}
FieldArgs == IF ChainProgram THEN {"f0", "f4"} ELSE {"a", "b"}
ValueArgs == {5}

TwinCfg == [cfg EXCEPT ![toggled] = ~@]

\* inst is the object the statement's operand was bound to (0: none)
Stmt(kind, var, src, type, method, field, inst, plan) ==
    [kind |-> kind, var |-> var, src |-> src, type |-> type,
     method |-> method, field |-> field, inst |-> inst, plan |-> plan]

BoundTo(I, name) == IF name \in DOMAIN I.env THEN I.env[name].inst ELSE 0

\* _resolve_and_link has not started: no local is set and no derived field
\* of a ClassDef is assigned
Linker0 ==
    [step |-> "relations", remaining |-> {}, done |-> {}, todo |-> {},
     progressed |-> FALSE, all_fields |-> EmptyMap, field_index |-> EmptyMap,
     method_slot |-> EmptyMap, vtable_tokens |-> EmptyMap,
     vtable_plans |-> EmptyMap]

Init ==
    /\ classes \in Tables
    /\ link = "pending"
    /\ cfg \in Configs
    /\ main = Interpreter0(classes)
    /\ twin = Interpreter0(classes)
    /\ toggled = "enable_vtable"
    /\ linker = Linker0
    /\ last = Stmt("init", None, None, None, None, None, 0, <<>>)
    /\ resolved = EmptyMap
    /\ steps = 0

\* the for loop of run() is still going
Running == link = "ok" /\ steps < MaxStmts /\ main.failed = "none"

\* Parser.parse ends with _resolve_and_link: the statements only run when it
\* returned
Link ==
    /\ link = "pending"
    /\ link' = IF link_error(classes) = "none" THEN "ok" ELSE link_error(classes)
    /\ classes' = IF link_error(classes) = "none" THEN resolve_and_link(classes)
                  ELSE classes
    /\ UNCHANGED <<cfg, main, twin, toggled, last, resolved, linker, steps>>

\* the model allocates at most MaxObjs objects
Allocates(m2) ==
    /\ ~(m2.failed = "none" /\ main.next_id > MaxObjs)
    /\ main' = m2

StmtNew(var, cls_name, args) ==
    /\ Running
    /\ Allocates(exec_let_new(classes, main, var, cls_name, args))
    /\ twin' = IF twin.failed = "none"
               THEN exec_let_new(classes, twin, var, cls_name, args) ELSE twin
    /\ last' = Stmt("new", var, None, cls_name, None, None, 0, <<>>)
    /\ steps' = steps + 1
    /\ UNCHANGED <<classes, link, cfg, toggled, resolved, linker>>

StmtClone(var, src) ==
    /\ Running
    /\ Allocates(exec_let_clone(classes, main, var, src))
    /\ twin' = IF twin.failed = "none"
               THEN exec_let_clone(classes, twin, var, src) ELSE twin
    /\ last' = Stmt("clone", var, src, None, None, None, BoundTo(main, src), <<>>)
    /\ steps' = steps + 1
    /\ UNCHANGED <<classes, link, cfg, toggled, resolved, linker>>

StmtCast(var, target_name, src) ==
    /\ Running
    /\ main' = exec_let_cast(classes, main, var, target_name, src)
    /\ twin' = IF twin.failed = "none"
               THEN exec_let_cast(classes, twin, var, target_name, src) ELSE twin
    /\ last' = Stmt("cast", var, src, target_name, None, None,
                     BoundTo(main, src), <<>>)
    /\ steps' = steps + 1
    /\ UNCHANGED <<classes, link, cfg, toggled, resolved, linker>>

StmtAlias(var, src) ==
    /\ Running
    /\ main' = exec_let_alias(classes, main, var, src)
    /\ twin' = IF twin.failed = "none"
               THEN exec_let_alias(classes, twin, var, src) ELSE twin
    /\ last' = Stmt("alias", var, src, None, None, None, BoundTo(main, src), <<>>)
    /\ steps' = steps + 1
    /\ UNCHANGED <<classes, link, cfg, toggled, resolved, linker>>

StmtFieldAssign(var, field_name, value) ==
    /\ Running
    /\ main' = exec_field_assign(classes, main, var, field_name, value)
    /\ twin' = IF twin.failed = "none"
               THEN exec_field_assign(classes, twin, var, field_name, value)
               ELSE twin
    /\ last' = Stmt("assign", var, None, None, None, field_name,
                     BoundTo(main, var), <<>>)
    /\ steps' = steps + 1
    /\ UNCHANGED <<classes, link, cfg, toggled, resolved, linker>>

\* the key of the call on var in interpreter I (var is bound)
KeyOf(I, var, method_name, dynamic) ==
    CacheKey(I.env[var].view_cls, I.objs[I.env[var].inst].cls, method_name,
             dynamic)

\* the call ended as r: the plan it used is recorded
Called(var, method_name, dynamic, r) ==
    /\ main' = r.st
    /\ last' = Stmt(IF dynamic THEN "vcall" ELSE "call", var, None, None,
                    method_name, None, BoundTo(main, var), r.plan)
    /\ resolved' =
         IF r.st.failed = "none"
            /\ KeyOf(main, var, method_name, dynamic) \notin DOMAIN resolved
         THEN Put(resolved, KeyOf(main, var, method_name, dynamic), r.plan)
         ELSE resolved

CallStep(var, method_name, dynamic) ==
    /\ Running
    /\ Called(var, method_name, dynamic,
              exec_call(classes, main, cfg, var, method_name, dynamic))
    /\ twin' = IF twin.failed = "none"
               THEN exec_call(classes, twin, TwinCfg, var, method_name, dynamic).st
               ELSE twin
    /\ steps' = steps + 1
    /\ UNCHANGED <<classes, link, cfg, toggled, linker>>

StmtCall(var, method_name) == CallStep(var, method_name, FALSE)

StmtVCall(var, method_name) == CallStep(var, method_name, TRUE)

StmtIs(var, type_name) ==
    /\ Running
    /\ main' = exec_is(classes, main, var, type_name)
    /\ twin' = IF twin.failed = "none"
               THEN exec_is(classes, twin, var, type_name) ELSE twin
    /\ last' = Stmt("is", var, None, type_name, None, None, BoundTo(main, var), <<>>)
    /\ steps' = steps + 1
    /\ UNCHANGED <<classes, link, cfg, toggled, resolved, linker>>

StmtFree(var) ==
    /\ Running
    /\ main' = exec_free(main, var)
    /\ twin' = IF twin.failed = "none" THEN exec_free(twin, var) ELSE twin
    /\ last' = Stmt("free", var, None, None, None, None, BoundTo(main, var), <<>>)
    /\ steps' = steps + 1
    /\ UNCHANGED <<classes, link, cfg, toggled, resolved, linker>>

StmtGc ==
    /\ Running
    /\ main' = exec_gc(main, cfg)
    /\ twin' = IF twin.failed = "none" THEN exec_gc(twin, TwinCfg) ELSE twin
    /\ last' = Stmt("gc", None, None, None, None, None, 0, <<>>)
    /\ steps' = steps + 1
    /\ UNCHANGED <<classes, link, cfg, toggled, resolved, linker>>

\* Config() with the defaults of the dataclass
Config0 ==
    [enable_metrics |-> FALSE, enable_gc |-> FALSE, enable_vtable |-> FALSE,
     enable_cache |-> TRUE]

\* the linker alone, over the type tables of LinkTables and Tables
InitLink ==
    /\ classes \in LinkTables \cup Tables
    /\ link = "pending"
    /\ cfg = Config0
    /\ main = Interpreter0(classes)
    /\ twin = Interpreter0(classes)
    /\ toggled = "enable_vtable"
    /\ linker = Linker0
    /\ last = Stmt("init", None, None, None, None, None, 0, <<>>)
    /\ resolved = EmptyMap
    /\ steps = 0

NextLink == Link

SpecLink == InitLink /\ [][NextLink]_vars

(***************************************************************************)
(* _resolve_and_link run step by step: one action per visit of a class in  *)
(* a pass of the two worklist loops (steps 4 and 7), one per end of a      *)
(* pass, one for the checks before the first loop (steps 1 to 3) and one   *)
(* for the code between the loops (steps 5 and 6).  The derived fields of  *)
(* the ClassDef records are kept in linker, an absent key standing for a   *)
(* field that was not assigned yet; classes stays the table as written.    *)
(***************************************************************************)
ClassNames(T) == {c \in DOMAIN T : ~T[c].is_interface}
InterfaceNames(T) == {c \in DOMAIN T : T[c].is_interface}

\* the error of steps 1 to 3, "none" when they raise nothing
relation_error(T) ==
    OrElse(FirstError([i \in 1..Len(Blocks(T)) |-> base_error(T, Blocks(T)[i])]),
    OrElse(FirstError([i \in 1..Len(Blocks(T)) |->
                          interfaces_error(T, Blocks(T)[i])]),
           FirstError([i \in 1..Len(Blocks(T)) |->
                          cycle_error(T, Blocks(T)[i])])))

\* mutant of ready: only a class without a base is taken from the worklist
ready_without_base(T, done, name) == T[name].base_name = None

\* "if t.base is None or t.base.name in done"
ready(T, done, name) ==
    T[name].base_name = None \/ T[name].base_name \in done

\* "while remaining: progressed = False; for name in list(remaining)": the
\* loop at step `here` begins a pass, or is left for step `after`
begin_pass(L, here, after) ==
    IF L.remaining = {} THEN [L EXCEPT !.step = after, !.todo = {}]
    ELSE [L EXCEPT !.step = here, !.todo = L.remaining, !.progressed = FALSE]

\* "done.add(name); remaining.remove(name); progressed = True"
taken(L, name) ==
    [L EXCEPT !.done = @ \cup {name}, !.remaining = @ \ {name},
              !.progressed = TRUE, !.todo = @ \ {name}]

\* the locals when the first worklist loop is reached: the layout of every
\* interface is computed before it
enter_layout(T) ==
    begin_pass([Linker0 EXCEPT
                   !.remaining = ClassNames(T),
                   !.all_fields = [c \in InterfaceNames(T) |-> <<>>],
                   !.field_index = [c \in InterfaceNames(T) |-> EmptyMap]],
               "layout", "fields")

\* steps 1 to 3 and the code before the first while loop
LinkRelations ==
    /\ link = "pending" /\ linker.step = "relations"
    /\ IF relation_error(classes) # "none"
       THEN /\ link' = relation_error(classes)
            /\ linker' = [linker EXCEPT !.step = "raised"]
       ELSE /\ link' = link
            /\ linker' = enter_layout(classes)
    /\ UNCHANGED <<classes, cfg, main, twin, toggled, last, resolved, steps>>

\* t.compute_layout() for a class whose base is done
layout_of(T, L, name) ==
    IF T[name].base_name = None THEN T[name].fields
    ELSE L.all_fields[T[name].base_name] \o T[name].fields

\* one iteration of "for name in list(remaining)" at step 4; a set is
\* iterated in no fixed order
LayoutVisit(name) ==
    /\ link = "pending" /\ linker.step = "layout"
    /\ name \in linker.todo
    /\ linker' =
          IF ready(classes, linker.done, name)
          THEN [taken(linker, name) EXCEPT
                   !.all_fields = Put(@, name, layout_of(classes, linker, name)),
                   !.field_index =
                       Put(@, name,
                           field_index_of(layout_of(classes, linker, name)))]
          ELSE [linker EXCEPT !.todo = @ \ {name}]
    /\ UNCHANGED <<classes, link, cfg, main, twin, toggled, last, resolved,
                   steps>>

\* the end of a pass at step 4: "if not progressed: raise", else the while
\* condition is tested again
LayoutPass ==
    /\ link = "pending" /\ linker.step = "layout"
    /\ linker.todo = {}
    /\ IF ~linker.progressed
       THEN /\ link' = "Could not compute field layout (unexpected)"
            /\ linker' = [linker EXCEPT !.step = "raised"]
       ELSE /\ link' = link
            /\ linker' = begin_pass(linker, "layout", "fields")
    /\ UNCHANGED <<classes, cfg, main, twin, toggled, last, resolved, steps>>

\* step 5 for one type, on the layouts step 4 computed
redeclare_error(T, L, c) ==
    IF T[c].is_interface \/ T[c].base_name = None THEN "none"
    ELSE IF \E i \in 1..Len(T[c].fields) :
               T[c].fields[i] \in Range(L.all_fields[T[c].base_name])
    THEN "Field already defined in base class"
    ELSE "none"

\* the locals when the second worklist loop is reached: step 6 has given
\* every interface its method slots
enter_vtables(T, L) ==
    begin_pass([L EXCEPT
                   !.remaining = ClassNames(T), !.done = {},
                   !.method_slot =
                       [c \in InterfaceNames(T) |-> iface_method_slot(T[c])]],
               "vtables", "returned")

\* steps 5 and 6 and the code before the second while loop; the function
\* returns when the table has no class
FieldCheck ==
    /\ link = "pending" /\ linker.step = "fields"
    /\ IF \E c \in DOMAIN classes :
             redeclare_error(classes, linker, c) # "none"
       THEN /\ link' = FirstError([i \in 1..Len(Blocks(classes)) |->
                          redeclare_error(classes, linker, Blocks(classes)[i])])
            /\ linker' = [linker EXCEPT !.step = "raised"]
       ELSE /\ linker' = enter_vtables(classes, linker)
            /\ link' = IF ClassNames(classes) = {} THEN "ok" ELSE link
    /\ UNCHANGED <<classes, cfg, main, twin, toggled, last, resolved, steps>>

\* the slot map and the vtable of a class whose base is done
vtable_of(T, L, name) ==
    IF T[name].base_name = None
    THEN add_methods([slot |-> EmptyMap, vt |-> <<>>], T[name].methods)
    ELSE add_methods([slot |-> L.method_slot[T[name].base_name],
                      vt |-> L.vtable_tokens[T[name].base_name]],
                     T[name].methods)

\* "t._vtable_plans = [None] * len(t.vtable_tokens)"
absent_plans(vt) == [i \in 1..Len(vt) |-> None]

\* one iteration of "for name in list(remaining)" at step 7
VtableVisit(name) ==
    /\ link = "pending" /\ linker.step = "vtables"
    /\ name \in linker.todo
    /\ linker' =
          IF ready(classes, linker.done, name)
          THEN [taken(linker, name) EXCEPT
                   !.method_slot =
                       Put(@, name, vtable_of(classes, linker, name).slot),
                   !.vtable_tokens =
                       Put(@, name, vtable_of(classes, linker, name).vt),
                   !.vtable_plans =
                       Put(@, name,
                           absent_plans(vtable_of(classes, linker, name).vt))]
          ELSE [linker EXCEPT !.todo = @ \ {name}]
    /\ UNCHANGED <<classes, link, cfg, main, twin, toggled, last, resolved,
                   steps>>

\* the end of a pass at step 7; the function returns when nothing remains
VtablePass ==
    /\ link = "pending" /\ linker.step = "vtables"
    /\ linker.todo = {}
    /\ IF ~linker.progressed
       THEN /\ link' = "Could not build vtables"
            /\ linker' = [linker EXCEPT !.step = "raised"]
       ELSE /\ linker' = begin_pass(linker, "vtables", "returned")
            /\ link' = IF linker.remaining = {} THEN "ok" ELSE link
    /\ UNCHANGED <<classes, cfg, main, twin, toggled, last, resolved, steps>>

NextLinkSteps ==
    \/ LinkRelations
    \/ \E name \in DOMAIN classes : LayoutVisit(name)
    \/ LayoutPass
    \/ FieldCheck
    \/ \E name \in DOMAIN classes : VtableVisit(name)
    \/ VtablePass

\* _resolve_and_link is one sequential call: whenever it can take a step it
\* takes one
SpecLinkSteps == InitLink /\ [][NextLinkSteps]_vars /\ WF_vars(NextLinkSteps)

\* one statement of the program is executed
Statement ==
    \/ \E v \in Names, t \in NewTypes, a \in ArgLists : StmtNew(v, t, a)
    \/ \E v \in Names, s \in Names : StmtClone(v, s)
    \/ \E v \in Names, t \in CastTypes, s \in Names : StmtCast(v, t, s)
    \/ \E v \in Names, s \in Names : StmtAlias(v, s)
    \/ \E v \in Names, f \in FieldArgs, n \in ValueArgs : StmtFieldAssign(v, f, n)
    \/ \E v \in Names, m \in MethodArgs : StmtCall(v, m)
    \/ \E v \in Names, m \in MethodArgs : StmtVCall(v, m)
    \/ \E v \in Names, t \in IsTypes : StmtIs(v, t)
    \/ \E v \in Names : StmtFree(v)
    \/ StmtGc

Next == Link \/ Statement

Spec == Init /\ [][Next]_vars

\* the linked Table1 and the interpreter after the first two statements of a
\* program that begins "let x = new B(10, 20)", "let y = clone x"; steps
\* counts the statements executed after them
InitTwoObjects ==
    /\ classes = resolve_and_link(Table1)
    /\ link = "ok"
    /\ cfg \in Configs
    /\ main = exec_let_clone(classes,
                             exec_let_new(classes, Interpreter0(classes), "x",
                                          "B", <<10, 20>>),
                             "y", "x")
    /\ twin = main
    /\ toggled = "enable_vtable"
    /\ linker = Linker0
    /\ last = Stmt("clone", "y", "x", None, None, None, 1, <<>>)
    /\ resolved = EmptyMap
    /\ steps = 0

SpecTwoObjects == InitTwoObjects /\ [][Statement]_vars

\* the programs of Spec and the chain program
InitChain ==
    /\ classes \in Tables \cup {ChainTable}
    /\ link = "pending"
    /\ cfg \in Configs
    /\ main = Interpreter0(classes)
    /\ twin = Interpreter0(classes)
    /\ toggled = "enable_vtable"
    /\ linker = Linker0
    /\ last = Stmt("init", None, None, None, None, None, 0, <<>>)
    /\ resolved = EmptyMap
    /\ steps = 0

SpecChain == InitChain /\ [][Next]_vars

\* the programs of Spec and of SpecTwoObjects, with twin run under cfg with
\* enable_cache flipped
InitCache ==
    /\ toggled = "enable_cache"
    /\ linker = Linker0
    /\ cfg \in Configs
    /\ resolved = EmptyMap
    /\ steps = 0
    /\ \/ /\ classes \in Tables
          /\ link = "pending"
          /\ main = Interpreter0(classes)
          /\ twin = Interpreter0(classes)
          /\ last = Stmt("init", None, None, None, None, None, 0, <<>>)
       \/ /\ classes = resolve_and_link(Table1)
          /\ link = "ok"
          /\ main = exec_let_clone(classes,
                                   exec_let_new(classes, Interpreter0(classes),
                                                "x", "B", <<10, 20>>),
                                   "y", "x")
          /\ twin = main
          /\ last = Stmt("clone", "y", "x", None, None, None, 1, <<>>)

SpecCache == InitCache /\ [][Next]_vars

(***************************************************************************)
(* Properties.                                                             *)
(***************************************************************************)
Ok(I) == I.failed = "none"

LastLine(I) == I.out[Len(I.out)]

ViewOf(I, name) == I.env[name].view_cls

RuntimeOf(I, name) == I.objs[I.env[name].inst].cls

Ancestors(c) == Range(BaseChain(classes, c))

\* the first class on the base chain of start that declares method m
NearestDecl(start, m) ==
    LET chain == BaseChain(classes, start)
        i == CHOOSE j \in 1..Len(chain) :
                /\ m \in MethodNames(classes[chain[j]])
                /\ \A k \in 1..(j - 1) : m \notin MethodNames(classes[chain[k]])
    IN  chain[i]

\* what the body of m declared in class decl prints for an object of class
\* runtime holding values
BodyValues(decl, m, runtime, values) ==
    LET toks == MethodToks(classes[decl], m)
        allf == classes[runtime].all_fields
    IN  [i \in 1..Len(toks) |->
            IF is_int(toks[i]) THEN IntOf[toks[i]]
            ELSE values[CHOOSE p \in 1..Len(allf) : allf[p] = toks[i]]]

\* the step executes a statement of the given kind
Executes(kind) == steps' = steps + 1 /\ last'.kind = kind

Unreferenced(I) == Range(I.heap) \ Roots(I)

-----------------------------------------------------------------------------
\* C1: toggling enable_vtable never changes the observable outcome of a run:
\* the run with the vtable on prints the same output lines and fails at the
\* same statement (or at none) as the run with the vtable off.
C1_VtableToggleSameOutcome ==
    /\ Ok(main) <=> Ok(twin)
    /\ main.out = twin.out

\* C2: whenever a vcall succeeds both with and without the vtable, on the
\* same object values, the values printed through the vtable/itable fast
\* path equal the values printed through the linear fallback.
C2_FastPathSameValues ==
    (last.kind = "vcall" /\ Ok(main) /\ Ok(twin) /\ main.objs = twin.objs)
        => LastLine(main) = LastLine(twin)

\* a vcall through an interface view succeeded on both paths and printed
\* something
C2_Witness ==
    /\ last.kind = "vcall" /\ Ok(main) /\ Ok(twin)
    /\ cfg.enable_vtable
    /\ classes[ViewOf(main, last.var)].is_interface
    /\ LastLine(main).vals # <<>>
    /\ LastLine(main) = LastLine(twin)

\* the view type is the runtime type, an ancestor class of it, or an
\* interface that the runtime type or one of its bases lists
ViewAllowed(view, runtime) ==
    \/ view = runtime
    \/ ~classes[view].is_interface /\ view \in Ancestors(runtime)
    \/ /\ classes[view].is_interface
       /\ \E c \in Ancestors(runtime) : view \in Range(classes[c].interfaces_names)

\* C3: in every reachable state every binding's view type is the bound
\* object's runtime type, an ancestor class of it or an interface it
\* implements.
C3_ViewTypeInvariant ==
    \A n \in DOMAIN main.env :
        ViewAllowed(main.env[n].view_cls, main.objs[main.env[n].inst].cls)

\* a clone of a cast binding: a second object viewed through a base or an
\* interface
C3_Witness ==
    /\ last.kind = "clone" /\ Ok(main)
    /\ ViewOf(main, last.var) # RuntimeOf(main, last.var)
    /\ main.env[last.var].inst # last.inst

\* C4: an object referenced by a binding when a gc statement runs is still
\* on the heap afterwards, with unchanged values.
C4_ReferencedSurvivesGc ==
    [][Executes("gc") =>
         \A i \in Roots(main) :
            /\ i \in Range(main'.heap)
            /\ i \in DOMAIN main'.objs
            /\ main'.objs[i] = main.objs[i]]_vars

\* a sweep removed something while a referenced object stayed
C4_Witness ==
    /\ last.kind = "gc" /\ cfg.enable_gc
    /\ Roots(main) # {}
    /\ Roots(main) \subseteq Range(main.heap)
    /\ Len(main.heap) < main.next_id - 1

\* C5: after a gc with enable_gc on, the heap holds exactly the objects that
\* some binding refers to (by identity), each once, and the number removed is
\* heap size before minus heap size after (which is what gc_collected grows
\* by when metrics are on).
C5_GcKeepsExactlyRoots ==
    [][(Executes("gc") /\ cfg.enable_gc) =>
         /\ Range(main'.heap) = Roots(main)
         /\ Len(main'.heap) = Cardinality(Roots(main))
         /\ Cardinality(Unreferenced(main)) = Len(main.heap) - Len(main'.heap)
         /\ cfg.enable_metrics =>
               main'.metrics.gc_collected =
                  main.metrics.gc_collected + Len(main.heap) - Len(main'.heap)]_vars

\* two objects were allocated, one was swept, the other is the root
C5_Witness ==
    /\ last.kind = "gc" /\ cfg.enable_gc /\ cfg.enable_metrics
    /\ main.next_id = 3
    /\ Len(main.heap) = 1
    /\ Roots(main) = Range(main.heap)
    /\ main.metrics.gc_collected = 1

\* the state after a free that removed the only alias of an object, at a gc
\* that runs with collection enabled
FreedThenGc ==
    /\ last.kind = "free" /\ Ok(main)
    /\ last.inst \notin Roots(main)
    /\ Executes("gc") /\ cfg.enable_gc

C7_HeapGrowsAndShrinks ==
    [][steps' = steps + 1 =>
         /\ (last'.kind \in {"new", "clone"} /\ Ok(main')) =>
               /\ Len(main'.heap) = Len(main.heap) + 1
               /\ SubSeq(main'.heap, 1, Len(main.heap)) = main.heap
               /\ main'.heap[Len(main'.heap)] \notin Range(main.heap)
         /\ ~(last'.kind \in {"new", "clone"} /\ Ok(main')) =>
               Len(main'.heap) <= Len(main.heap)
         /\ ~(last'.kind \in {"new", "clone"} /\ Ok(main'))
               /\ ~(last'.kind = "gc" /\ cfg.enable_gc) =>
               main'.heap = main.heap
         /\ (last'.kind = "gc" /\ ~cfg.enable_gc) => main' = main]_vars

\* a gc with collection disabled left an unreferenced object on the heap
C7_Witness ==
    /\ last.kind = "gc" /\ ~cfg.enable_gc
    /\ Unreferenced(main) # {}

\* C8: with enable_cache on, resolving a (call kind, view, runtime, method)
\* that was resolved before returns the plan of the first resolution and
\* walks no hierarchy: resolve_steps, class_jumps and class_probes stay.
C8_SecondResolutionIsFree ==
    [][(/\ steps' = steps + 1
        /\ last'.kind \in {"call", "vcall"}
        /\ cfg.enable_cache
        /\ last'.var \in DOMAIN main.env
        /\ KeyOf(main, last'.var, last'.method, last'.kind = "vcall")
              \in DOMAIN resolved) =>
         /\ Ok(main')
         /\ last'.plan =
               resolved[KeyOf(main, last'.var, last'.method, last'.kind = "vcall")]
         /\ main'.metrics.resolve_steps = main.metrics.resolve_steps
         /\ main'.metrics.class_jumps = main.metrics.class_jumps
         /\ main'.metrics.class_probes = main.metrics.class_probes]_vars

\* a call was served from a cache after an earlier resolution had walked
\* at least one base hop
C8_Witness ==
    /\ last.kind \in {"call", "vcall"} /\ Ok(main)
    /\ cfg.enable_cache /\ cfg.enable_metrics
    /\ main.metrics.cache_hits >= 1
    /\ main.metrics.resolve_steps >= 1

\* C9: a static call through a class view prints the body found by the
\* base-chain walk from the view type, also when a class below the view
\* overrides the method.
C9_StaticCallBindsToView ==
    (last.kind = "call" /\ Ok(main) /\ ~classes[ViewOf(main, last.var)].is_interface)
        => LastLine(main) =
              Line("vals",
                   BodyValues(NearestDecl(ViewOf(main, last.var), last.method),
                              last.method, RuntimeOf(main, last.var),
                              main.objs[last.inst].values))

\* a static call through an ancestor view of an object whose class
\* overrides the method
C9_Witness ==
    /\ last.kind = "call" /\ Ok(main)
    /\ ~classes[ViewOf(main, last.var)].is_interface
    /\ NearestDecl(ViewOf(main, last.var), last.method)
          # NearestDecl(RuntimeOf(main, last.var), last.method)

\* C10: a vcall with the vtable disabled prints the body found by the
\* base-chain walk from the runtime type, whatever the view type.
C10_DynamicCallBindsToRuntime ==
    (last.kind = "vcall" /\ Ok(main) /\ ~cfg.enable_vtable)
        => LastLine(main) =
              Line("vals",
                   BodyValues(NearestDecl(RuntimeOf(main, last.var), last.method),
                              last.method, RuntimeOf(main, last.var),
                              main.objs[last.inst].values))

\* a vcall without the vtable through a view that is not the runtime type
C10_Witness ==
    /\ last.kind = "vcall" /\ Ok(main) /\ ~cfg.enable_vtable
    /\ ViewOf(main, last.var) # RuntimeOf(main, last.var)

-----------------------------------------------------------------------------
\* some class on the base chain of start declares method m
HasDecl(start, m) == \E c \in Ancestors(start) : m \in MethodNames(classes[c])

\* the last statement was a static call on a bound variable whose view is an
\* interface that declares the method
StaticIfaceCall ==
    /\ last.kind = "call" /\ last.inst # 0
    /\ classes[ViewOf(main, last.var)].is_interface
    /\ last.method \in MethodNames(classes[ViewOf(main, last.var)])

Visible(view, m) ==
    IF classes[view].is_interface THEN m \in MethodNames(classes[view])
    ELSE HasDecl(view, m)

\* the step executes a call or vcall on a bound variable
CallsBound ==
    /\ steps' = steps + 1
    /\ last'.kind \in {"call", "vcall"}
    /\ last'.var \in DOMAIN main.env

\* C12: a call or vcall whose method name is not visible through the view
\* type of the binding fails and prints nothing, with the vtable on and off
\* and the cache on and off, also when the runtime type declares the method.
C12_InvisibleMethodFails ==
    [][(CallsBound /\ ~Visible(ViewOf(main, last'.var), last'.method)) =>
         /\ ~Ok(main')
         /\ main'.out = main.out
         /\ Ok(twin) => (~Ok(twin') /\ twin'.out = twin.out)]_vars

\* a call failed on a method that the runtime class declares but the view
\* does not show, while the run with the other vtable setting was still going
C12_Witness ==
    /\ last.kind \in {"call", "vcall"} /\ last.inst # 0
    /\ ~Ok(main) /\ twin.out = main.out
    /\ twin.failed = "Method not found in view type"
    /\ ~Visible(ViewOf(main, last.var), last.method)
    /\ HasDecl(RuntimeOf(main, last.var), last.method)

\* the step executes a cast whose source variable is bound
CastsBound ==
    /\ steps' = steps + 1
    /\ last'.kind = "cast"
    /\ last'.src \in DOMAIN main.env

\* the target type name of a cast is known and is the runtime type, one of
\* its ancestor classes or an interface it implements
CastAllowed(target, runtime) ==
    /\ target \in DOMAIN classes
    /\ ViewAllowed(target, runtime)

\* C13: cast<T> succeeds exactly when T is the runtime type of the object, an
\* ancestor class of it or an interface it implements, whatever the view of
\* the source binding; on success the target name is bound to the same object
\* with view T and the heap, the objects and all other bindings are as before;
\* on failure the environment is unchanged.
C13_CastSucceedsIffAllowed ==
    [][CastsBound =>
         /\ Ok(main') <=> CastAllowed(last'.type, RuntimeOf(main, last'.src))
         /\ Ok(main') =>
               /\ main'.env[last'.var] =
                     VarBinding(main.env[last'.src].inst, last'.type)
               /\ DOMAIN main'.env = DOMAIN main.env \cup {last'.var}
               /\ \A n \in DOMAIN main.env \ {last'.var} :
                     main'.env[n] = main.env[n]
         /\ ~Ok(main') => main'.env = main.env
         /\ main'.heap = main.heap
         /\ main'.objs = main.objs]_vars

\* a binding viewed as base A was cast back down to its runtime type B
C13_Witness ==
    /\ last.kind = "cast" /\ Ok(main) /\ last.inst # 0
    /\ last.type = "B"
    /\ last.var # last.src
    /\ last.src \in DOMAIN main.env
    /\ ViewOf(main, last.src) = "A"
    /\ main.env[last.var] = VarBinding(last.inst, "B")

\* the step executes a successful clone
Clones ==
    /\ steps' = steps + 1
    /\ last'.kind = "clone"
    /\ Ok(main')

\* the step executes a field assignment through a bound variable
AssignsBound ==
    /\ steps' = steps + 1
    /\ last'.kind = "assign"
    /\ last'.var \in DOMAIN main.env

\* C14: clone appends to the heap a new object distinct from the source, with
\* the source's runtime type and its values at clone time, and binds it with
\* the view type of the source binding; the source object is unchanged, and
\* a later field assignment through one of the two objects does not change
\* the values of the other.
C14_CloneIsIndependentCopy ==
    [][/\ Clones =>
            LET srcb == main.env[last'.src]
                newb == main'.env[last'.var]
            IN  /\ newb.inst \notin DOMAIN main.objs
                /\ newb.inst \notin Range(main.heap)
                /\ main'.heap = Append(main.heap, newb.inst)
                /\ main'.objs[newb.inst].cls = main.objs[srcb.inst].cls
                /\ main'.objs[newb.inst].values = main.objs[srcb.inst].values
                /\ newb.view_cls = srcb.view_cls
                /\ \A i \in DOMAIN main.objs : main'.objs[i] = main.objs[i]
       /\ AssignsBound =>
            \A i \in DOMAIN main.objs \ {main.env[last'.var].inst} :
                main'.objs[i] = main.objs[i]]_vars

\* a B object viewed as A was cloned: the copy is a second B object with the
\* same two values, viewed as A
C14_Witness ==
    /\ last.kind = "clone" /\ Ok(main) /\ last.inst # 0
    /\ main.env[last.var].inst # last.inst
    /\ last.inst \in DOMAIN main.objs
    /\ main.objs[main.env[last.var].inst] = main.objs[last.inst]
    /\ main.objs[last.inst].cls = "B"
    /\ ViewOf(main, last.var) = "A"

\* the position (from 1) of field f in the full field layout of class c
FieldPos(c, f) ==
    CHOOSE p \in 1..Len(classes[c].all_fields) : classes[c].all_fields[p] = f

\* C15: a field assignment x.f = n resolves f among the fields of the
\* object's runtime type (not of the view type), overwrites exactly that one
\* value of that object, so that every binding of the object sees it, and
\* changes no other object; when f is not a field of the runtime type the
\* statement fails and no value changes.
C15_FieldAssignInPlace ==
    [][AssignsBound =>
         LET inst == main.env[last'.var].inst
             runtime == main.objs[inst].cls
             known == last'.field \in Range(classes[runtime].all_fields)
         IN  /\ Ok(main') <=> known
             /\ main'.env = main.env
             /\ main'.heap = main.heap
             /\ \A i \in DOMAIN main.objs \ {inst} : main'.objs[i] = main.objs[i]
             /\ DOMAIN main'.objs = DOMAIN main.objs
             /\ ~known => main'.objs = main.objs
             /\ known =>
                  /\ main'.objs[inst].cls = runtime
                  /\ \E n \in ValueArgs :
                        /\ main'.objs[inst].values =
                              [main.objs[inst].values
                                  EXCEPT ![FieldPos(runtime, last'.field)] = n]
                        /\ \A b \in DOMAIN main'.env :
                              main'.env[b].inst = inst =>
                                 main'.objs[main'.env[b].inst]
                                    .values[FieldPos(runtime, last'.field)] = n]_vars

\* field b of a B object was assigned through a binding whose view A has no
\* field b, and another binding of the same object, viewed as B, shows it
C15_Witness ==
    /\ last.kind = "assign" /\ Ok(main) /\ last.inst # 0
    /\ last.field = "b"
    /\ ViewOf(main, last.var) = "A"
    /\ main.objs[last.inst].values = <<10, 5>>
    /\ \E n \in DOMAIN main.env \ {last.var} :
          main.env[n] = VarBinding(last.inst, "B")

\* the step executes a free statement
Frees == steps' = steps + 1 /\ last'.kind = "free"

\* C16: free x removes only the name x from the environment: the heap, the
\* objects and every other binding (other aliases of the same object
\* included) are unchanged; free of an unbound name fails and changes
\* nothing; and an object leaves the heap only at a gc that runs with
\* collection enabled while no binding refers to the object.
C16_FreeRemovesOnlyTheName ==
    [][/\ Frees =>
            /\ Ok(main') <=> last'.var \in DOMAIN main.env
            /\ Ok(main') =>
                  /\ DOMAIN main'.env = DOMAIN main.env \ {last'.var}
                  /\ \A n \in DOMAIN main'.env : main'.env[n] = main.env[n]
            /\ ~Ok(main') => main'.env = main.env
            /\ main'.heap = main.heap
            /\ main'.objs = main.objs
       /\ \A i \in Range(main.heap) :
            i \notin Range(main'.heap) =>
               /\ Executes("gc") /\ cfg.enable_gc
               /\ i \notin Roots(main)]_vars

\* one of two aliases of an object was freed: the other alias and the object
\* are still there
C16_Witness ==
    /\ last.kind = "free" /\ Ok(main) /\ last.inst # 0
    /\ last.var \notin DOMAIN main.env
    /\ last.inst \in Roots(main)
    /\ last.inst \in Range(main.heap)
    /\ last.inst \in DOMAIN main.objs

\* the step executes an is statement
Tests == steps' = steps + 1 /\ last'.kind = "is"

\* the variable is bound, the type name is known, and the runtime type of the
\* object equals or derives from the named class or implements the named
\* interface
IsPositive(I, var, type_name) ==
    /\ var \in DOMAIN I.env
    /\ type_name \in DOMAIN classes
    /\ LET runtime == I.objs[I.env[var].inst].cls
       IN  IF classes[type_name].is_interface
           THEN \E c \in Ancestors(runtime) :
                   type_name \in Range(classes[c].interfaces_names)
           ELSE type_name \in Ancestors(runtime)

\* C17: the is statement never fails; it prints IS exactly when the variable
\* is bound, the type name is known and the runtime type equals or derives
\* from the named class or implements the named interface, prints ISN'T
\* otherwise (unknown variable or type name included), and changes nothing
\* else.
C17_IsNeverFails ==
    [][Tests =>
         /\ Ok(main')
         /\ main' =
              [main EXCEPT !.out =
                  Append(@, Line(IF IsPositive(main, last'.var, last'.type)
                                 THEN "IS" ELSE "ISN'T", <<>>))]]_vars

\* a B object viewed through interface K was found to be an A
C17_Witness ==
    /\ last.kind = "is" /\ Ok(main) /\ last.inst # 0
    /\ last.type = "A"
    /\ RuntimeOf(main, last.var) = "B"
    /\ ViewOf(main, last.var) = "K"
    /\ LastLine(main) = Line("IS", <<>>)

\* the step executes "let v = new t(a)" for a class t whose full field
\* layout has another length than a
NewWithWrongArity(v, t, a) ==
    /\ Executes("new")
    /\ ~classes[t].is_interface
    /\ Len(a) # Len(classes[t].all_fields)
    /\ StmtNew(v, t, a)

\* C18: a new statement whose argument count differs from the length of the
\* full field layout of the class fails with the arity error; no object is
\* added to the heap and the environment is unchanged.
C18_WrongArityFailsBeforeAllocation ==
    [][\A a \in ArgLists :
          NewWithWrongArity(last'.var, last'.type, a) =>
             /\ main'.failed = "Class expects args"
             /\ main'.heap = main.heap
             /\ main'.objs = main.objs
             /\ main'.next_id = main.next_id
             /\ main'.env = main.env]_vars

\* a new with the wrong argument count failed on a name that was bound
\* before and still is
C18_Witness ==
    /\ last.kind = "new"
    /\ main.failed = "Class expects args"
    /\ last.var \in DOMAIN main.env
    /\ Len(main.heap) = 1
    /\ main.next_id = 2

\* C19: every failure is fatal and has no partial effect: the statement that
\* fails leaves the environment, the heap, the objects, the plan cache and
\* the per-class vtable and itable plan caches as they were and prints
\* nothing, and after a failure no statement executes.
C19_FailureIsFatalAndClean ==
    [][/\ (Ok(main) /\ ~Ok(main')) =>
            /\ main'.env = main.env
            /\ main'.heap = main.heap
            /\ main'.objs = main.objs
            /\ main'.plan_cache = main.plan_cache
            /\ main'.vtable_plans = main.vtable_plans
            /\ main'.itable_plans = main.itable_plans
            /\ main'.out = main.out
       /\ ~Ok(main) => (main' = main /\ steps' = steps /\ last' = last)]_vars

\* a vcall failed while the itable was being built, after the walk for its
\* first method had been counted
C19_Witness ==
    /\ last.kind = "vcall" /\ last.inst # 0
    /\ main.failed = "Class does not implement"
    /\ main.metrics.class_jumps > 1
    /\ main.env # EmptyMap /\ main.heap # <<>>
    /\ \A c \in DOMAIN classes : main.itable_plans[c] = EmptyMap

RECURSIVE ProperAncestors(_, _, _)
\* the known types reached from c along base names in at most n hops
ProperAncestors(T, c, n) ==
    IF n = 0 \/ T[c].base_name = None \/ T[c].base_name \notin DOMAIN T THEN {}
    ELSE {T[c].base_name} \cup ProperAncestors(T, T[c].base_name, n - 1)

\* class c of table T names an unknown base, names an unknown interface, uses
\* an interface as its base, lists a type that is not an interface, or
\* declares a field that the full layout of its base already holds
BadClass(T, c) ==
    /\ ~T[c].is_interface
    /\ \/ T[c].base_name # None /\ T[c].base_name \notin DOMAIN T
       \/ \E i \in Range(T[c].interfaces_names) : i \notin DOMAIN T
       \/ T[c].base_name \in DOMAIN T /\ T[T[c].base_name].is_interface
       \/ \E i \in Range(T[c].interfaces_names) \cap DOMAIN T :
             ~T[i].is_interface
       \/ \E a \in ProperAncestors(T, c, Cardinality(DOMAIN T)) :
             Range(T[c].fields) \cap Range(T[a].fields) # {}

\* C20: linking fails, before any statement runs, for every type table in
\* which some class names an unknown base, names an unknown interface, uses
\* an interface as its base, lists a non-interface type among its interfaces,
\* or declares a field that already occurs in the full field layout of its
\* base.
C20_BadTableFailsToLink ==
    (link # "pending" /\ \E c \in DOMAIN classes : BadClass(classes, c))
        => /\ link # "ok"
           /\ steps = 0
           /\ main = Interpreter0(classes)

\* the only fault of the table is a field of B that its base A declares, and
\* linking stopped at it
C20_Witness ==
    /\ link = "Field already defined in base class"
    /\ classes.B.base_name = "A"
    /\ classes.B.interfaces_names = <<"K">>
    /\ classes.B.fields = <<"a">>
    /\ BadClass(classes, "B")
    /\ steps = 0

-----------------------------------------------------------------------------
\* the base chain of some class of table T contains a cycle: the class is on
\* the cycle or its chain leads into it
Cyclic(T) ==
    \E c \in DOMAIN T :
        /\ ~T[c].is_interface
        /\ \E a \in {c} \cup ProperAncestors(T, c, Cardinality(DOMAIN T)) :
              a \in ProperAncestors(T, a, Cardinality(DOMAIN T))

\* C21: linking fails for every type table in which the base chain of some
\* class contains a cycle (a class that is its own base, a longer cycle, or a
\* chain that leads into a cycle), and the cycle check rejects no table whose
\* base relation is acyclic.
C21_CycleWalkRejectsExactlyCycles ==
    link # "pending" =>
        /\ Cyclic(classes) => link # "ok"
        /\ ~Cyclic(classes) => link # "Cyclic class inheritance detected"

\* A and B are each other's base and C, whose base is A, leads into that
\* cycle: the linker reported the cycle
C21_Witness ==
    /\ link = "Cyclic class inheritance detected"
    /\ "C" \in DOMAIN classes
    /\ classes.A.base_name = "B"
    /\ classes.B.base_name = "A"
    /\ classes.C.base_name = "A"

-----------------------------------------------------------------------------
\* the table was linked
Linked == link = "ok"

\* the proper ancestors of class c in the linked table
Bases(c) == ProperAncestors(classes, c, Cardinality(DOMAIN classes))

\* C22: after successful linking, the full field layout of every class is the
\* full layout of its base followed by the fields the class declares, in
\* declaration order (just the declared fields when it has no base), and the
\* layout of every interface is empty.
C22_LayoutIsBaseThenDeclared ==
    Linked =>
        \A c \in DOMAIN classes :
            classes[c].all_fields =
                IF classes[c].is_interface THEN <<>>
                ELSE IF classes[c].base_name = None THEN classes[c].fields
                ELSE classes[classes[c].base_name].all_fields
                         \o classes[c].fields

\* the chain C -> B -> A was linked: C's layout is a, b, c, e
C22_Witness ==
    /\ Linked
    /\ "C" \in DOMAIN classes
    /\ classes.C.base_name = "B"
    /\ classes.B.base_name = "A"
    /\ classes.C.all_fields = <<"a", "b", "c", "e">>
    /\ classes.I.all_fields = <<>>

\* C23: after successful linking, a class gives every field of an ancestor's
\* layout the index the ancestor gives it, so a body compiled against the
\* class reads an inherited field at the position of the ancestor's layout.
C23_FieldIndexStable ==
    Linked =>
        \A c \in DOMAIN classes : \A a \in Bases(c) :
            /\ \A f \in Range(classes[a].all_fields) :
                  /\ f \in DOMAIN classes[c].field_index
                  /\ classes[c].field_index[f] = classes[a].field_index[f]
            /\ \A i \in 1..Len(classes[a].methods) :
                  LET pa == compile_plan(classes, a, classes[a].methods[i].toks)
                  IN  pa.ok =>
                         compile_plan(classes, c, classes[a].methods[i].toks)
                             = pa

\* the chain A -> C -> B was linked: field c has index 1 in C and in A
C23_Witness ==
    /\ Linked
    /\ "C" \in DOMAIN classes
    /\ classes.A.base_name = "C"
    /\ classes.C.base_name = "B"
    /\ classes.B.base_name = None
    /\ classes.A.field_index["c"] = 1
    /\ classes.C.field_index["c"] = 1
    /\ compile_plan(classes, "A", <<"c">>).plan = <<<<TRUE, 1>>>>

\* C24: after successful linking, a class gives every method name that has a
\* slot in an ancestor the slot the ancestor gives it, whether or not the
\* class or a class between them overrides the method, and its vtable is at
\* least as long as the ancestor's.
C24_MethodSlotStable ==
    Linked =>
        \A d \in DOMAIN classes : \A b \in Bases(d) :
            /\ \A m \in DOMAIN classes[b].method_slot :
                  /\ m \in DOMAIN classes[d].method_slot
                  /\ classes[d].method_slot[m] = classes[b].method_slot[m]
            /\ Len(classes[d].vtable_tokens) >= Len(classes[b].vtable_tokens)

\* the chain C -> B -> A was linked: m, overridden by B, and n, overridden
\* only by C, keep the slots A gave them, and C's table holds the overrides
C24_Witness ==
    /\ Linked
    /\ "C" \in DOMAIN classes
    /\ classes.C.base_name = "B"
    /\ classes.B.base_name = "A"
    /\ classes.A.method_slot = [n |-> 0, m |-> 1]
    /\ classes.C.method_slot = [n |-> 0, m |-> 1, d |-> 2, r |-> 3]
    /\ classes.C.vtable_tokens = <<<<"c">>, <<"b">>, <<"a", "-3">>, <<"e", "1">>>>

-----------------------------------------------------------------------------
\* the step executes a vcall on a bound variable, with the vtable on, of a
\* method that is visible through the view of the binding
VCallsVisible ==
    /\ CallsBound
    /\ last'.kind = "vcall"
    /\ cfg.enable_vtable
    /\ Visible(ViewOf(main, last'.var), last'.method)

\* the walk counters of interpreter I
WalkCounters(I) ==
    <<I.metrics.resolve_steps, I.metrics.class_jumps, I.metrics.class_probes,
      I.metrics.resolve_fails>>

\* the interpreter in which the binding of var views its object through the
\* object's runtime type
ThroughRuntime(I, var) == [I EXCEPT !.env[var].view_cls = RuntimeOf(I, var)]

\* C25: a vcall through a class view with the vtable on succeeds without a
\* base-chain walk: resolve_steps, class_jumps, class_probes and
\* resolve_fails are unchanged, vtable_uses grows by one when metrics are on
\* (and stays otherwise), the global plan cache is left as it was, and the
\* line printed is the one a static call through the runtime type's own view
\* prints, which is the body of the nearest declaration on the runtime
\* type's chain (f0 of C0 for the chain C0..C4).
C25_VtableCallIsOneLookup ==
    [][(VCallsVisible /\ ~classes[ViewOf(main, last'.var)].is_interface) =>
         /\ Ok(main')
         /\ WalkCounters(main') = WalkCounters(main)
         /\ main'.metrics.vtable_uses =
               main.metrics.vtable_uses + IF cfg.enable_metrics THEN 1 ELSE 0
         /\ main'.plan_cache = main.plan_cache
         /\ main'.out =
               Append(main.out,
                      Line("vals",
                           BodyValues(NearestDecl(RuntimeOf(main, last'.var),
                                                  last'.method),
                                      last'.method, RuntimeOf(main, last'.var),
                                      main.objs[last'.inst].values)))
         /\ LastLine(main') =
               LastLine(exec_call(classes, ThroughRuntime(main, last'.var), cfg,
                                  last'.var, last'.method, FALSE).st)]_vars

\* new C4(0,1,2,3,4), cast to C0, vcall m with the vtable and the metrics on:
\* 0 is printed, one vtable use and no hop is recorded
C25_Witness ==
    /\ last.kind = "vcall" /\ last.inst # 0 /\ Ok(main)
    /\ cfg.enable_vtable /\ cfg.enable_metrics
    /\ ViewOf(main, last.var) = "C0"
    /\ RuntimeOf(main, last.var) = "C4"
    /\ main.objs[last.inst].values = <<0, 1, 2, 3, 4>>
    /\ LastLine(main) = Line("vals", <<0>>)
    /\ main.metrics.vtable_uses = 1
    /\ main.metrics.class_jumps = 0
    /\ main.plan_cache = EmptyMap

-----------------------------------------------------------------------------
\* every method that interface iface declares without a body of its own is
\* declared on the base chain of runtime
RequiredProvided(runtime, iface) ==
    \A m \in MethodNames(classes[iface]) :
        MethodToks(classes[iface], m) = <<>> => HasDecl(runtime, m)

\* the step casts a bound variable to an interface of the table
CastsToInterface ==
    /\ CastsBound
    /\ last'.type \in DOMAIN classes
    /\ classes[last'.type].is_interface

\* C26: a cast of an object to an interface fails when the runtime type does
\* not implement the interface and succeeds when it implements it, directly
\* or through a base class; every vcall through an interface view whose
\* required methods the runtime type provides, with the vtable on, succeeds
\* through the itable: itable_uses grows by one when metrics are on and the
\* global plan cache is left as it was.
C26_InterfaceViewUsesItable ==
    [][/\ CastsToInterface =>
            (Ok(main') <=>
                implements_interface(classes, RuntimeOf(main, last'.src),
                                     last'.type))
       /\ (/\ VCallsVisible
           /\ classes[ViewOf(main, last'.var)].is_interface
           /\ RequiredProvided(RuntimeOf(main, last'.var),
                               ViewOf(main, last'.var))) =>
            /\ Ok(main')
            /\ main'.metrics.itable_uses =
                  main.metrics.itable_uses
                      + IF cfg.enable_metrics THEN 1 ELSE 0
            /\ main'.plan_cache = main.plan_cache]_vars

-----------------------------------------------------------------------------
\* every field entry of plan is a position of the full layout of runtime
PlanFits(plan, runtime) ==
    \A k \in 1..Len(plan) :
        plan[k][1] => plan[k][2] \in 0..(Len(classes[runtime].all_fields) - 1)

\* the objects of interpreter I that are on the heap or bound to a name
LiveObjects(I) == Range(I.heap) \cup {I.env[n].inst : n \in DOMAIN I.env}

\* object i of interpreter I has a class as runtime type, one value per field
\* of the full layout of that class, and every body on the chain of that
\* class compiles to a plan that fits the layout
WellFormed(I, i) ==
    /\ I.objs[i].cls \in DOMAIN classes
    /\ ~classes[I.objs[i].cls].is_interface
    /\ Len(I.objs[i].values) = Len(classes[I.objs[i].cls].all_fields)
    /\ \A c \in Ancestors(I.objs[i].cls) :
          \A k \in 1..Len(classes[c].methods) :
              PlanFits(compile_plan(classes, I.objs[i].cls,
                                    classes[c].methods[k].toks).plan,
                       I.objs[i].cls)

\* C27: every object on the heap or bound in the environment has a class (not
\* an interface) as runtime type and as many values as that class's full
\* field layout has entries, so the field positions of a plan compiled for
\* that type are positions of its values; an object gets the type named by
\* the new statement that constructs it (a clone the type of its source) and
\* no later statement changes the runtime type of an object.
C27_ObjectsKeepTypeAndShape ==
    [][/\ \A i \in LiveObjects(main') : WellFormed(main', i)
       /\ \A i \in LiveObjects(main) \cap LiveObjects(main') :
             main'.objs[i].cls = main.objs[i].cls
       /\ (Executes("new") /\ Ok(main')) =>
             RuntimeOf(main', last'.var) = last'.type
       /\ (Clones /\ Ok(main')) =>
             RuntimeOf(main', last'.var) = RuntimeOf(main, last'.src)
       /\ (Executes("vcall") /\ Ok(main')) =>
             PlanFits(last'.plan, main.objs[last'.inst].cls)]_vars

\* two statements after new B(10, 20) the object is still a B with two
\* values: it was cast to the view A and a field of it was assigned
C27_Witness ==
    /\ steps = 3 /\ Ok(main)
    /\ last.kind = "assign" /\ last.inst # 0
    /\ main.objs[last.inst].cls = "B"
    /\ main.objs[last.inst].values # <<10, 20>>
    /\ Len(main.objs[last.inst].values) = 2
    /\ \E n \in DOMAIN main.env :
          main.env[n].inst = last.inst /\ main.env[n].view_cls = "A"

-----------------------------------------------------------------------------
\* interpreter I holds a plan for the call of m through var: in the vtable
\* plans or the itable of the runtime type for a vcall with the vtable on,
\* in the global plan cache otherwise
CacheServes(I, var, m, dynamic) ==
    /\ Visible(ViewOf(I, var), m)
    /\ IF dynamic /\ cfg.enable_vtable
       THEN IF classes[ViewOf(I, var)].is_interface
            THEN ViewOf(I, var) \in DOMAIN I.itable_plans[RuntimeOf(I, var)]
            ELSE classes[ViewOf(I, var)].method_slot[m]
                     \in DOMAIN I.vtable_plans[RuntimeOf(I, var)]
       ELSE /\ cfg.enable_cache
            /\ CacheKey(ViewOf(I, var), RuntimeOf(I, var), m, dynamic)
                  \in DOMAIN I.plan_cache

\* interpreter I with every plan forgotten
Cold(I) ==
    [I EXCEPT !.plan_cache = EmptyMap,
              !.vtable_plans = [c \in DOMAIN classes |-> EmptyMap],
              !.itable_plans = [c \in DOMAIN classes |-> EmptyMap]]

\* C28: a call served from a cache (the global plan cache, the vtable plans,
\* an itable) succeeds and prints one line: the values a declared body of the
\* method gives on the invoked object's values as they are at the call, which
\* is the line the same call prints when every plan has been forgotten and
\* the method is resolved and compiled afresh.
C28_CachedPlanReadsCurrentValues ==
    [][(CallsBound
        /\ CacheServes(main, last'.var, last'.method, last'.kind = "vcall")) =>
         /\ Ok(main')
         /\ Len(main'.out) = Len(main.out) + 1
         /\ \E decl \in DOMAIN classes :
               /\ last'.method \in MethodNames(classes[decl])
               /\ LastLine(main') =
                     Line("vals",
                          BodyValues(decl, last'.method,
                                     RuntimeOf(main, last'.var),
                                     main.objs[last'.inst].values))
         /\ LastLine(main') =
               LastLine(exec_call(classes, Cold(main), cfg, last'.var,
                                  last'.method, last'.kind = "vcall").st)]_vars

\* after new B(10, 20) and its clone: a call of m printed 20, and the next
\* call of m, served from a cache, printed the 5 that an assignment had put
\* into field b of the invoked object
C28_Witness ==
    /\ steps = 3 /\ Ok(main)
    /\ last.kind \in {"call", "vcall"}
    /\ cfg.enable_metrics
    /\ main.metrics.cache_hits = 1
    /\ main.metrics.cache_misses = 1
    /\ main.out = <<Line("vals", <<20>>), Line("vals", <<5>>)>>
    /\ main.objs[last.inst].values = <<10, 5>>

-----------------------------------------------------------------------------
\* C29: with enable_metrics off every metrics counter (resolve_calls,
\* resolve_steps, class_jumps, class_probes, resolve_fails, cache_hits,
\* cache_misses, vtable_uses, itable_uses, gc_runs, gc_collected) is zero in
\* every state of the run.
C29_MetricsOffCountersStayZero ==
    ~cfg.enable_metrics => main.metrics = Metrics0

-----------------------------------------------------------------------------
\* the step executes a vcall of a visible method through an interface view
\* with the vtable on
ItableVCall ==
    /\ VCallsVisible
    /\ classes[ViewOf(main, last'.var)].is_interface

\* the number of classes the linear walk from start visits until it finds a
\* declaration of m
Hops(start, m) ==
    CHOOSE j \in 1..Len(BaseChain(classes, start)) :
        BaseChain(classes, start)[j] = NearestDecl(start, m)

RECURSIVE SumHops(_, _)
SumHops(start, ms) ==
    IF ms = <<>> THEN 0
    ELSE Hops(start, Head(ms).name) + SumHops(start, Tail(ms))

\* one plan per method of iface, in declaration order: the body found by the
\* walk from runtime, compiled against runtime
ItableOf(runtime, iface) ==
    [k \in 1..Len(classes[iface].methods) |->
        compile_plan(classes, runtime,
                     MethodToks(classes[NearestDecl(runtime,
                                                    classes[iface].methods[k].name)],
                                classes[iface].methods[k].name)).plan]

\* the itable of the pair the step dispatches through was built before
Built == ViewOf(main, last'.var)
             \in DOMAIN main.itable_plans[RuntimeOf(main, last'.var)]

\* the runtime chain declares every method of the interface of the step
AllDeclared ==
    \A m \in MethodNames(classes[ViewOf(main, last'.var)]) :
        HasDecl(RuntimeOf(main, last'.var), m)

-----------------------------------------------------------------------------
\* every entry of map f is an entry of map g
Keeps(f, g) == \A k \in DOMAIN f : k \in DOMAIN g /\ g[k] = f[k]

\* every plan that interpreter I holds in one of the three cache layers is
\* held unchanged by interpreter J
CachesKept(I, J) ==
    /\ Keeps(I.plan_cache, J.plan_cache)
    /\ \A c \in DOMAIN classes :
          /\ Keeps(I.vtable_plans[c], J.vtable_plans[c])
          /\ Keeps(I.itable_plans[c], J.itable_plans[c])

\* C31: no statement removes or replaces a stored plan: every key of the
\* global plan cache, every filled vtable plan slot of a class and every
\* itable of a class for an interface is, after any statement (gc, free and
\* field assignment included, failing statements included), still set to the
\* plan it was set to before.
C31_CachesAreWriteOnce ==
    [][CachesKept(main, main') /\ CachesKept(twin, twin')]_vars

\* after new B(10, 20) and its clone: a call stored a plan in one of the
\* cache layers, a name was freed, and a gc swept the freed object while the
\* plan stayed
C31_Witness ==
    /\ steps = 3 /\ Ok(main)
    /\ last.kind = "gc" /\ cfg.enable_gc
    /\ Len(main.heap) = 1
    /\ Len(main.out) = 1
    /\ \/ main.plan_cache # EmptyMap
       \/ main.vtable_plans["B"] # EmptyMap
       \/ main.itable_plans["B"] # EmptyMap

-----------------------------------------------------------------------------
\* C32: after successful linking, the names with a slot in a class are exactly
\* the method names declared on the base chain of the class, the vtable entry
\* of each is the token sequence of its nearest declaration on that chain,
\* and every method that ClassDef.lookup_method finds from a class has a slot
\* there, so the vtable branch of a call never lacks a slot.
C32_VtableMatchesLinearLookup ==
    Linked =>
        \A c \in DOMAIN classes :
            ~classes[c].is_interface =>
                /\ DOMAIN classes[c].method_slot =
                      UNION {MethodNames(classes[a]) : a \in Ancestors(c)}
                /\ \A m \in DOMAIN classes[c].method_slot :
                      /\ classes[c].method_slot[m]
                            \in 0..(Len(classes[c].vtable_tokens) - 1)
                      /\ classes[c].vtable_tokens[classes[c].method_slot[m] + 1]
                            = MethodToks(classes[NearestDecl(c, m)], m)
                      /\ lookup_with_steps(classes, c, m).found
                      /\ lookup_with_steps(classes, c, m).toks
                            = classes[c].vtable_tokens[
                                  classes[c].method_slot[m] + 1]
                /\ \A m \in UNION {MethodNames(classes[t]) : t \in DOMAIN classes} :
                      lookup_method(classes, c, m).found
                          <=> m \in DOMAIN classes[c].method_slot

\* the chain A -> C -> B was linked: A's table holds B's m and d, C's n and r
\* in the slots their first declarations took, with A's own m in B's slot
C32_Witness ==
    /\ Linked
    /\ "C" \in DOMAIN classes
    /\ classes.A.base_name = "C"
    /\ classes.C.base_name = "B"
    /\ classes.B.base_name = None
    /\ classes.A.method_slot = [m |-> 0, d |-> 1, r |-> 2, n |-> 3]
    /\ classes.A.vtable_tokens =
          <<<<"a", "1">>, <<"a", "-3">>, <<"e", "1">>, <<"2", "a">>>>

-----------------------------------------------------------------------------
\* the run with the plan cache on, of main and twin
CacheOn == IF cfg.enable_cache THEN main ELSE twin

\* C33: the run with enable_cache on and the run with enable_cache off of
\* the same statements over the same linked table fail at the same statement
\* or at none, print the same lines and leave the same bindings and objects;
\* every plan in the global cache of the run with the cache on is the plan a
\* resolution of its key compiles when nothing is cached.
C33_PlanCacheIsTransparent ==
    toggled = "enable_cache" =>
        /\ main.failed = twin.failed
        /\ main.out = twin.out
        /\ main.env = twin.env
        /\ main.heap = twin.heap
        /\ main.objs = twin.objs
        /\ \A key \in DOMAIN CacheOn.plan_cache :
              \E i \in DOMAIN CacheOn.objs :
                  /\ CacheOn.objs[i].cls = key[3]
                  /\ resolve_call_plan(
                         classes,
                         [CacheOn EXCEPT !.plan_cache = EmptyMap,
                                         !.failed = "none"],
                         [cfg EXCEPT !.enable_cache = FALSE],
                         VarBinding(i, key[2]), key[4], key[1] = "dyn").plan
                        = CacheOn.plan_cache[key]

\* after new B(10, 20) and its clone: a static call of m compiled a plan, b
\* of the object was assigned, and the same call was served from the plan
\* cache in the one run and resolved again in the other
C33_Witness ==
    /\ toggled = "enable_cache"
    /\ cfg.enable_cache /\ cfg.enable_metrics
    /\ steps = 3 /\ Ok(main)
    /\ last.kind = "call"
    /\ main.metrics.cache_hits = 1
    /\ twin.metrics.cache_hits = 0
    /\ twin.metrics.resolve_calls = 2
    /\ main.out = <<Line("vals", <<20>>), Line("vals", <<5>>)>>

-----------------------------------------------------------------------------
\* the errors of the subtype and implements checks inside call resolution
RelationErrors ==
    {"is not a subclass of view type", "does not implement interface"}

\* interpreter I failed in the call that is the last statement for one of the
\* four reasons a call can fail, and the reason is true of the call
CallFailedFor(I) ==
    \/ I.failed = "Unknown variable" /\ last.inst = 0
    \/ /\ I.failed = "Method not found in view type"
       /\ last.inst # 0
       /\ ~Visible(ViewOf(I, last.var), last.method)
    \/ /\ I.failed = "Method not found (resolved)"
       /\ last.inst # 0
       /\ ~HasDecl(RuntimeOf(I, last.var), last.method)
    \/ /\ I.failed = "Class does not implement"
       /\ last.inst # 0
       /\ classes[ViewOf(I, last.var)].is_interface
       /\ \E m \in MethodNames(classes[ViewOf(I, last.var)]) :
             ~HasDecl(RuntimeOf(I, last.var), m)
    \/ I.failed = "Unknown field in method" /\ last.inst # 0

\* C34: no run fails with "is not a subclass of view type" or "does not
\* implement interface": a call or vcall that fails does so because the
\* variable is unknown, the method is not visible through the view, a method
\* has no implementation on the chain of the runtime type, or a method body
\* names an unknown field.
C34_RelationChecksNeverFail ==
    /\ main.failed \notin RelationErrors
    /\ twin.failed \notin RelationErrors
    /\ (last.kind \in {"call", "vcall"} /\ ~Ok(main)) => CallFailedFor(main)

\* a static call through the interface view K of a B failed because no class
\* on the chain of B declares q
C34_Witness ==
    /\ last.kind = "call" /\ last.inst # 0
    /\ main.failed = "Method not found (resolved)"
    /\ ViewOf(main, last.var) = "K"
    /\ RuntimeOf(main, last.var) = "B"
    /\ last.method = "q"

-----------------------------------------------------------------------------
\* every object a name of interpreter I is bound to is on the heap of I, and
\* no object is on that heap twice
HeapHoldsBindings(I) ==
    /\ \A n \in DOMAIN I.env : I.env[n].inst \in Range(I.heap)
    /\ \A i, j \in 1..Len(I.heap) : I.heap[i] = I.heap[j] => i = j

\* C35: in every reachable state every object referenced by a binding of the
\* environment is on the heap and the heap holds no object twice, whatever
\* new, clone, cast, alias, rebinding of a name, free and gc did before.
C35_BoundObjectsAreOnHeap ==
    HeapHoldsBindings(main) /\ HeapHoldsBindings(twin)

\* a name was bound to a new object and bound again to a second one, and a gc
\* swept the first: the heap holds exactly the object the name is bound to
C35_Witness ==
    /\ steps = 3 /\ Ok(main)
    /\ last.kind = "gc" /\ cfg.enable_gc
    /\ main.heap = <<2>>
    /\ DOMAIN main.env = {"x"}
    /\ main.env["x"].inst = 2

-----------------------------------------------------------------------------
\* C36: after successful linking, the full field layout of every class holds
\* no name twice and field_index is the exact inverse of the layout: the
\* index of the name at position i is i, for every position i, so that every
\* constructor argument position can be read and assigned by name.
C36_FieldIndexInvertsLayout ==
    Linked =>
        \A c \in DOMAIN classes :
            /\ \A i, j \in 1..Len(classes[c].all_fields) :
                  classes[c].all_fields[i] = classes[c].all_fields[j] => i = j
            /\ \A i \in 1..Len(classes[c].all_fields) :
                  classes[c].field_index[classes[c].all_fields[i]] = i - 1

-----------------------------------------------------------------------------
\* every derived field the linker assigns is assigned for every type, and the
\* plan array of every class is all absent and as long as its vtable
Populated ==
    /\ \A c \in DOMAIN classes :
          /\ c \in DOMAIN linker.all_fields
          /\ c \in DOMAIN linker.field_index
          /\ c \in DOMAIN linker.method_slot
    /\ \A c \in ClassNames(classes) :
          /\ c \in DOMAIN linker.vtable_tokens
          /\ c \in DOMAIN linker.vtable_plans
          /\ Len(linker.vtable_plans[c]) = Len(linker.vtable_tokens[c])
          /\ \A i \in 1..Len(linker.vtable_plans[c]) :
                linker.vtable_plans[c][i] = None

\* the errors of the two worklist loops
WorklistErrors ==
    {"Could not compute field layout (unexpected)", "Could not build vtables"}

\* C37: linking terminates for every type table, with an error or with
\* success; on success every type has its field layout, field index and
\* method-slot map, and every class also its vtable and a plan array of the
\* same length whose every slot is absent; the errors of the two worklist
\* loops, which are only reached after the cycle check has passed, are never
\* raised.
C37_LinkingTerminatesPopulated ==
    /\ <>(link # "pending")
    /\ [](link = "ok" => Populated)
    /\ [](link \notin WorklistErrors)

\* the chain C -> B -> A was linked step by step: both worklist loops ran
\* dry, and C has four vtable slots and four absent plans
C37_Witness ==
    /\ link = "ok"
    /\ linker.step = "returned"
    /\ linker.remaining = {}
    /\ "C" \in DOMAIN classes
    /\ classes.C.base_name = "B"
    /\ classes.B.base_name = "A"
    /\ linker.done = {"A", "B", "C"}
    /\ linker.all_fields["C"] = <<"a", "b", "c", "e">>
    /\ Len(linker.vtable_tokens["C"]) = 4
    /\ linker.vtable_plans["C"] = <<None, None, None, None>>

=============================================================================
